---------------------------- MODULE Spec2Model ----------------------------
(***************************************************************************)
(* ProcessLoopbackCapture: the capture object's configuration, its         *)
(* READY / CAPTURING / PAUSED life cycle, the producer thread              *)
(* (ProcessMainToCallback / ProcessMainToQueue), the decoupling thread     *)
(* (ProcessIntermediate) and the audio session they pull from.             *)
(*                                                                         *)
(* One caller thread issues the public operations.  An operation that      *)
(* joins worker threads (StopThreads) is split at its joins, where the     *)
(* workers interleave with it; everything else an operation does between   *)
(* two blocking points is one step.                                        *)
(*                                                                         *)
(* Bytes of the session's stream are numbered 1, 2, 3, ... in the order    *)
(* the session produces them, so that order, loss and duplication show.    *)
(* A skip duration is given in whole milliseconds.                         *)
(***************************************************************************)
EXTENDS Integers, Sequences, FiniteSets, TLC

\* ------------------------------------------------------------------ bounds

\* Frames the session produces over one run.
MaxFrames == 2

\* ------------------------------------------------------- program constants

WAVE_FORMAT_PCM == 1

WAVE_FORMAT_IEEE_FLOAT == 3

CHAR_BIT == 8

SizeofFloat == 4

\* LoopbackCaptureConst: the limits SetCaptureFormat checks.
MIN_SAMPLE_RATE == 1000

MAX_SAMPLE_RATE == 384000

MAX_BIT_DEPTH == 32

MIN_CHANNEL_COUNT == 1

MAX_CHANNEL_COUNT == 1024

\* The constructor's m_dwCallbackInterval.
DefaultCallbackInterval == 100

\* 2^16: one limb of a DWORD, and the range of a WORD.
Limb == 65536

\* ------------------------------------------------------------------- state

VARIABLES
    queueAvailable,             \* PROCESS_LOOPBACK_CAPTURE_QUEUE_AVAILABLE of the build
    m_hrLastError,
    m_CaptureState,
    m_pAudioClient,             \* TRUE: a session interface is held
    m_pAudioCaptureClient,
    m_hSampleReadyEvent,        \* TRUE: the event handle is open
    m_bCaptureFormatInitialized,
    m_CaptureFormat,
    m_dwProcessId,
    m_bProcessInclusive,
    m_bUseIntermediateBuffer,
    m_pCallbackFunc,            \* 0: nullptr
    m_pCallbackFuncUserData,
    m_dwCallbackInterval,
    m_bThreadsStarted,
    m_pMainAudioThread,         \* "nullptr", or the function the thread runs
    m_bRunMainAudioThread,
    m_dwMainThreadBytesToSkip,
    m_pQueueAudioThread,
    m_bRunQueueAudioThread,
    m_Queue,
    m_vecIntermediateBuffer,
    mainPc,                     \* where the producer thread is
    pData,                      \* the session buffer the producer holds
    iByte,                      \* bytes of pData already processed
    queuePc,                    \* where the decoupling thread is
    sessStarted,                \* the session is streaming
    sessPackets,                \* packets the session has ready
    eventSignaled,              \* the frame-ready event (auto-reset)
    nextByte,                   \* number of the next byte the session produces
    callerPc,                   \* "idle", or the join the caller is blocked in
    lastOp,                     \* the public operation called last
    lastRet,                    \* what it returns (has returned when callerPc = "idle")
    consumed,                   \* bytes the running producer has read from session buffers
    skipAtLaunch,               \* the budget the running producer was launched with
    cbRanges,                   \* ranges passed to the callback since the workers' launch
    stale,                      \* bytes queued or staged, and not passed to the callback,
                                \* when a PauseCapture returned (until StopCapture)
    skipIn,                     \* <<>>, or <<a format and a skip duration>>
    skipOut,                    \* <<>>, or <<the budget StartThreads computes from them>>
    m_bActivateFinished,        \* the flag of StartCapture's AsyncCallback (of the
                                \* last one, once StartCapture has returned)
    activateOp,                 \* its activation: "none", "pending" (the completion
                                \* handler has not run) or "done"
    starterPc,                  \* of each of two threads that call StartCapture at
                                \* the same time: "idle", "passed" (past the checks
                                \* of the state, the format and the process id) or
                                \* "returned"
    starterRet                  \* what the call of each returned

cfgVars == <<m_bCaptureFormatInitialized, m_CaptureFormat, m_dwProcessId,
             m_bProcessInclusive, m_bUseIntermediateBuffer, m_pCallbackFunc,
             m_pCallbackFuncUserData, m_dwCallbackInterval>>

sessionVars == <<m_pAudioClient, m_pAudioCaptureClient, m_hSampleReadyEvent,
                 sessStarted, sessPackets>>

threadVars == <<m_bThreadsStarted, m_pMainAudioThread, m_bRunMainAudioThread,
                m_dwMainThreadBytesToSkip, m_pQueueAudioThread,
                m_bRunQueueAudioThread, mainPc, queuePc>>

bufferVars == <<m_Queue, m_vecIntermediateBuffer, pData, iByte>>

histVars == <<consumed, skipAtLaunch, cbRanges, stale>>

callVars == <<callerPc, lastOp, lastRet>>

\* Everything of the object and its environment but the record of the last call.
objVars == <<queueAvailable, m_hrLastError, m_CaptureState, cfgVars, sessionVars,
             threadVars, bufferVars, eventSignaled, nextByte, callerPc, histVars>>

skipVars == <<skipIn, skipOut>>

adapterVars == <<m_bActivateFinished, activateOp>>

starterVars == <<starterPc, starterRet>>

vars == <<objVars, lastOp, lastRet, skipVars, adapterVars, starterVars>>

\* ----------------------------------------------------------------- helpers

Range(s) == {s[i] : i \in 1..Len(s)}

Min(a, b) == IF a < b THEN a ELSE b

\* s without its first n elements.
DropN(s, n) == SubSeq(s, Min(n, Len(s)) + 1, Len(s))

RECURSIVE Flatten(_)
Flatten(ss) == IF ss = <<>> THEN <<>> ELSE Head(ss) \o Flatten(Tail(ss))

\* frames * align in 16-bit limbs: over * 2^32 + hi * 2^16 + lo.
MulLimbs(frames, align) ==
    LET p0 == (frames % Limb) * align
        p1 == (frames \div Limb) * align + p0 \div Limb
    IN  [over |-> p1 \div Limb, hi |-> p1 % Limb, lo |-> p0 % Limb]

\* A DWORD below 2^31 as a number.
DwordValue(dw) == dw.hi * Limb + dw.lo


\* -------------------------------------------------------- the capture format

\* WAVEFORMATEX m_CaptureFormat{} : value-initialised.
ZeroFormat ==
    [wFormatTag |-> 0, nChannels |-> 0, nSamplesPerSec |-> 0,
     wBitsPerSample |-> 0, nBlockAlign |-> 0, nAvgBytesPerSec |-> 0]

\* The checks of SetCaptureFormat without the one of the format tag.
FormatParamOkAnyTag(iSampleRate, iBitDepth, iChannelCount, iFormatTag) ==
    /\ ~(iSampleRate < MIN_SAMPLE_RATE \/ iSampleRate > MAX_SAMPLE_RATE)
    /\ ~(iBitDepth = 0 \/ iBitDepth > MAX_BIT_DEPTH \/ (iBitDepth % CHAR_BIT) # 0)
    /\ ~(iChannelCount < MIN_CHANNEL_COUNT \/ iChannelCount > MAX_CHANNEL_COUNT)

\* The checks of SetCaptureFormat that return PARAM.
FormatParamOk(iSampleRate, iBitDepth, iChannelCount, iFormatTag) ==
    /\ ~(iSampleRate < MIN_SAMPLE_RATE \/ iSampleRate > MAX_SAMPLE_RATE)
    /\ ~(iBitDepth = 0 \/ iBitDepth > MAX_BIT_DEPTH \/ (iBitDepth % CHAR_BIT) # 0)
    /\ ~(iChannelCount < MIN_CHANNEL_COUNT \/ iChannelCount > MAX_CHANNEL_COUNT)
    /\ (iFormatTag = WAVE_FORMAT_IEEE_FLOAT \/ iFormatTag = WAVE_FORMAT_PCM)

\* The bit depth as given, for IEEE float too.
StoredBitDepthUnforced(iBitDepth, iFormatTag) == iBitDepth

\* The bit depth stored: IEEE float forces sizeof(float) * CHAR_BIT.
StoredBitDepth(iBitDepth, iFormatTag) ==
    IF iFormatTag = WAVE_FORMAT_IEEE_FLOAT THEN SizeofFloat * CHAR_BIT ELSE iBitDepth

\* The low 32 bits of the DWORD product nSamplesPerSec * nBlockAlign.
AvgBytesPerSec(nSamplesPerSec, nBlockAlign) ==
    LET p == MulLimbs(nSamplesPerSec, nBlockAlign)
    IN  DwordValue([hi |-> p.hi, lo |-> p.lo])

\* The field stores with the block alignment taken from the bit-depth argument
\* instead of the stored bit depth.
MakeFormatArgumentDepth(iSampleRate, iBitDepth, iChannelCount, iFormatTag) ==
    LET bits  == StoredBitDepth(iBitDepth, iFormatTag) % Limb
        chans == iChannelCount % Limb
        align == ((chans * (iBitDepth % Limb)) \div CHAR_BIT) % Limb
    IN  [wFormatTag |-> iFormatTag % Limb, nChannels |-> chans,
         nSamplesPerSec |-> iSampleRate, wBitsPerSample |-> bits,
         nBlockAlign |-> align,
         nAvgBytesPerSec |-> AvgBytesPerSec(iSampleRate, align)]

\* The six fields SetCaptureFormat stores (WORD fields are cut to 16 bits, the
\* DWORD product to 32).
MakeFormat(iSampleRate, iBitDepth, iChannelCount, iFormatTag) ==
    LET bits  == StoredBitDepth(iBitDepth, iFormatTag) % Limb
        chans == iChannelCount % Limb
        align == ((chans * bits) \div CHAR_BIT) % Limb
    IN  [wFormatTag |-> iFormatTag % Limb, nChannels |-> chans,
         nSamplesPerSec |-> iSampleRate, wBitsPerSample |-> bits,
         nBlockAlign |-> align,
         nAvgBytesPerSec |-> AvgBytesPerSec(iSampleRate, align)]

\* ------------------------------------------------------ the inputs explored

\* Arguments of SetCaptureFormat: <<rate, bit depth, channels, tag>>.
FormatArgs ==
    { <<MIN_SAMPLE_RATE, 2 * CHAR_BIT, MIN_CHANNEL_COUNT, WAVE_FORMAT_PCM>>,
      <<MIN_SAMPLE_RATE - 1, CHAR_BIT, MIN_CHANNEL_COUNT, WAVE_FORMAT_PCM>> }

\* Frames in one session packet (one GetBuffer).
PacketFrames == { 1, 2 }

\* Arguments of SetTargetProcess: <<process id, inclusive>>.
TargetArgs == { <<0, TRUE>>, <<7, TRUE>> }

\* Arguments of SetCallback: <<function, user data>>; 0 is nullptr.
CallbackArgs == { <<0, 0>>, <<1, 1>> }

\* Arguments of SetCallbackInterval.
IntervalArgs == { 0, DefaultCallbackInterval }

\* Skip durations of ResumeCapture, in milliseconds.
SkipArgs == { -1, 0, 1, 2 }

\* HRESULTs: S_OK, or a failure.
HResults == { "S_OK", "E_FAIL" }

\* ------------------------------------------------------ configuration setters
\* XxxResult is the eCaptureError a call returns in the current state.  lastOp
\* and lastRet record the last call that got past the state check; a call that
\* returns STATE changes nothing, this record included.

\* A recorded call that returns at once.
Returned(op, ret) ==
    /\ lastOp' = op
    /\ lastRet' = ret
    /\ callerPc' = "idle"

\* A call refused with STATE.
Refused == UNCHANGED vars

SetCaptureFormatResult(iSampleRate, iBitDepth, iChannelCount, iFormatTag) ==
    IF m_CaptureState # "READY" THEN "STATE"
    ELSE IF ~FormatParamOk(iSampleRate, iBitDepth, iChannelCount, iFormatTag) THEN "PARAM"
    ELSE "NONE"

SetCaptureFormat(iSampleRate, iBitDepth, iChannelCount, iFormatTag) ==
    LET ret == SetCaptureFormatResult(iSampleRate, iBitDepth, iChannelCount, iFormatTag)
    IN  /\ callerPc = "idle"
        /\ IF ret = "STATE" THEN Refused
           ELSE /\ IF ret = "NONE"
                   THEN /\ m_CaptureFormat' =
                              MakeFormat(iSampleRate, iBitDepth, iChannelCount, iFormatTag)
                        /\ m_bCaptureFormatInitialized' = TRUE
                   ELSE UNCHANGED <<m_CaptureFormat, m_bCaptureFormatInitialized>>
                /\ Returned("SetCaptureFormat", ret)
                /\ UNCHANGED <<queueAvailable, m_hrLastError, m_CaptureState, sessionVars,
                               threadVars, bufferVars, eventSignaled, nextByte, histVars,
                               skipVars, adapterVars, starterVars, m_dwProcessId, m_bProcessInclusive,
                               m_bUseIntermediateBuffer, m_pCallbackFunc,
                               m_pCallbackFuncUserData, m_dwCallbackInterval>>

\* CopyCaptureFormat(Format): the value returned, and what Format receives
\* (nothing when the format was never set).
CopyCaptureFormat ==
    IF ~m_bCaptureFormatInitialized
    THEN [ret |-> FALSE, Format |-> <<>>]
    ELSE [ret |-> TRUE, Format |-> <<m_CaptureFormat>>]

\* SetTargetProcess without its check of the process id.
SetTargetProcessResultAnyId(dwProcessId, bInclusive) ==
    IF m_CaptureState # "READY" THEN "STATE" ELSE "NONE"

SetTargetProcessResult(dwProcessId, bInclusive) ==
    IF m_CaptureState # "READY" THEN "STATE"
    ELSE IF dwProcessId = 0 THEN "PARAM"
    ELSE "NONE"

SetTargetProcess(dwProcessId, bInclusive) ==
    LET ret == SetTargetProcessResult(dwProcessId, bInclusive)
    IN  /\ callerPc = "idle"
        /\ IF ret = "STATE" THEN Refused
           ELSE /\ IF ret = "NONE"
                   THEN /\ m_dwProcessId' = dwProcessId
                        /\ m_bProcessInclusive' = bInclusive
                   ELSE UNCHANGED <<m_dwProcessId, m_bProcessInclusive>>
                /\ Returned("SetTargetProcess", ret)
                /\ UNCHANGED <<queueAvailable, m_hrLastError, m_CaptureState, sessionVars,
                               threadVars, bufferVars, eventSignaled, nextByte, histVars,
                               skipVars, adapterVars, starterVars, m_CaptureFormat, m_bCaptureFormatInitialized,
                               m_bUseIntermediateBuffer, m_pCallbackFunc,
                               m_pCallbackFuncUserData, m_dwCallbackInterval>>

\* SetCallback without its state check.
SetCallbackResultUnchecked(pCallbackFunc, pUserData) == "NONE"

SetCallbackResult(pCallbackFunc, pUserData) ==
    IF m_CaptureState # "READY" THEN "STATE" ELSE "NONE"

SetCallback(pCallbackFunc, pUserData) ==
    LET ret == SetCallbackResult(pCallbackFunc, pUserData)
    IN  /\ callerPc = "idle"
        /\ IF ret = "STATE" THEN Refused
           ELSE /\ m_pCallbackFunc' = pCallbackFunc
                /\ m_pCallbackFuncUserData' = pUserData
                /\ Returned("SetCallback", ret)
                /\ UNCHANGED <<queueAvailable, m_hrLastError, m_CaptureState, sessionVars,
                               threadVars, bufferVars, eventSignaled, nextByte, histVars,
                               skipVars, adapterVars, starterVars, m_CaptureFormat, m_bCaptureFormatInitialized,
                               m_dwProcessId, m_bProcessInclusive, m_bUseIntermediateBuffer,
                               m_dwCallbackInterval>>

\* The interval stored as given.
UnclampedInterval(dwInterval) == dwInterval

\* The interval SetCallbackInterval stores: at least 1.
ClampedInterval(dwInterval) == IF dwInterval < 1 THEN 1 ELSE dwInterval

SetCallbackIntervalResult(dwInterval) ==
    IF m_CaptureState # "READY" THEN "STATE" ELSE "NONE"

SetCallbackInterval(dwInterval) ==
    LET ret == SetCallbackIntervalResult(dwInterval)
    IN  /\ callerPc = "idle"
        /\ IF ret = "STATE" THEN Refused
           ELSE /\ m_dwCallbackInterval' = ClampedInterval(dwInterval)
                /\ Returned("SetCallbackInterval", ret)
                /\ UNCHANGED <<queueAvailable, m_hrLastError, m_CaptureState, sessionVars,
                               threadVars, bufferVars, eventSignaled, nextByte, histVars,
                               skipVars, adapterVars, starterVars, m_CaptureFormat, m_bCaptureFormatInitialized,
                               m_dwProcessId, m_bProcessInclusive, m_bUseIntermediateBuffer,
                               m_pCallbackFunc, m_pCallbackFuncUserData>>

\* In a build without the queue the function returns before its state check.
SetIntermediateBufferEnabledResult(bEnable) ==
    IF ~queueAvailable THEN "NOT_AVAILABLE"
    ELSE IF m_CaptureState # "READY" THEN "STATE"
    ELSE "NONE"

SetIntermediateBufferEnabled(bEnable) ==
    LET ret == SetIntermediateBufferEnabledResult(bEnable)
    IN  /\ callerPc = "idle"
        /\ IF ret = "STATE" THEN Refused
           ELSE /\ m_bUseIntermediateBuffer' =
                      IF ret = "NONE" THEN bEnable ELSE m_bUseIntermediateBuffer
                /\ Returned("SetIntermediateBufferEnabled", ret)
                /\ UNCHANGED <<queueAvailable, m_hrLastError, m_CaptureState, sessionVars,
                               threadVars, bufferVars, eventSignaled, nextByte, histVars,
                               skipVars, adapterVars, starterVars, m_CaptureFormat, m_bCaptureFormatInitialized,
                               m_dwProcessId, m_bProcessInclusive, m_pCallbackFunc,
                               m_pCallbackFuncUserData, m_dwCallbackInterval>>

\* ------------------------------------------------------------ the skip budget

\* (DWORD)(nSamplesPerSec * fInitialDurationToSkip): the whole frames in ms
\* milliseconds, a negative duration counting as 0.  The inputs explored keep
\* it below 2^31.
SkipFrames(nSamplesPerSec, ms) ==
    LET d == IF ms < 0 THEN 0 ELSE ms
    IN  nSamplesPerSec * (d \div 1000) + (nSamplesPerSec * (d % 1000)) \div 1000

\* What StartThreads stores in m_dwMainThreadBytesToSkip: the DWORD product,
\* which keeps the low 32 bits.
BytesToSkip(format, ms) ==
    LET p == MulLimbs(SkipFrames(format.nSamplesPerSec, ms), format.nBlockAlign)
    IN  [hi |-> p.hi, lo |-> p.lo]

\* ------------------------------------------------------- StartThreads, Reset

\* The producer's function chosen from the flag alone, whatever the build.
ThreadFunctionAnyBuild ==
    IF m_bUseIntermediateBuffer
    THEN "ProcessMainToQueue" ELSE "ProcessMainToCallback"

ThreadFunction ==
    IF queueAvailable /\ m_bUseIntermediateBuffer
    THEN "ProcessMainToQueue" ELSE "ProcessMainToCallback"

\* StartThreads without its check of m_bThreadsStarted.
StartThreadsUnchecked(ms) ==
    /\ m_dwMainThreadBytesToSkip' = DwordValue(BytesToSkip(m_CaptureFormat, ms))
    /\ m_bRunMainAudioThread' = TRUE
    /\ m_pMainAudioThread' = ThreadFunction
    /\ mainPc' = "wait"
    /\ IF queueAvailable /\ m_bUseIntermediateBuffer
       THEN /\ m_bRunQueueAudioThread' = TRUE
            /\ m_pQueueAudioThread' = "ProcessIntermediate"
            /\ queuePc' = "loop"
       ELSE /\ m_bRunQueueAudioThread' = FALSE
            /\ m_pQueueAudioThread' = "nullptr"
            /\ queuePc' = "none"
    /\ m_bThreadsStarted' = TRUE
    /\ consumed' = <<>>
    /\ skipAtLaunch' = DwordValue(BytesToSkip(m_CaptureFormat, ms))
    /\ cbRanges' = <<>>

\* StartThreads(fInitialDurationToSkip): nothing when the threads are started.
StartThreads(ms) ==
    IF m_bThreadsStarted
    THEN UNCHANGED <<threadVars, consumed, skipAtLaunch, cbRanges>>
    ELSE /\ m_dwMainThreadBytesToSkip' = DwordValue(BytesToSkip(m_CaptureFormat, ms))
         /\ m_bRunMainAudioThread' = TRUE
         /\ m_pMainAudioThread' = ThreadFunction
         /\ mainPc' = "wait"
         /\ IF queueAvailable /\ m_bUseIntermediateBuffer
            THEN /\ m_bRunQueueAudioThread' = TRUE
                 /\ m_pQueueAudioThread' = "ProcessIntermediate"
                 /\ queuePc' = "loop"
            ELSE /\ m_bRunQueueAudioThread' = FALSE
                 /\ m_pQueueAudioThread' = "nullptr"
                 /\ queuePc' = "none"
         /\ m_bThreadsStarted' = TRUE
         /\ consumed' = <<>>
         /\ skipAtLaunch' = DwordValue(BytesToSkip(m_CaptureFormat, ms))
         /\ cbRanges' = <<>>

\* StopThreads that sets the event and joins without clearing the run flags.
StopThreadsBeginKeepsFlags ==
    /\ UNCHANGED <<m_bRunMainAudioThread, m_bRunQueueAudioThread>>
    /\ eventSignaled' = TRUE
    /\ callerPc' = "joinMain"

\* StopThreads up to its first join: the run flags and the forced signal.
StopThreadsBegin ==
    /\ m_bRunMainAudioThread' = FALSE
    /\ m_bRunQueueAudioThread' = FALSE
    /\ eventSignaled' = TRUE
    /\ callerPc' = "joinMain"

\* StopThreads that does not flush the queue.
StopThreadsFinishNoFlush ==
    /\ UNCHANGED m_Queue
    /\ m_vecIntermediateBuffer' = <<>>
    /\ m_bThreadsStarted' = FALSE
    /\ consumed' = <<>>
    /\ skipAtLaunch' = 0
    /\ cbRanges' = <<>>

\* StopThreads after its joins: the flush and the clear.
StopThreadsFinish ==
    /\ m_Queue' = <<>>
    /\ m_vecIntermediateBuffer' = <<>>
    /\ m_bThreadsStarted' = FALSE
    /\ consumed' = <<>>
    /\ skipAtLaunch' = 0
    /\ cbRanges' = <<>>

\* What the object holds of the session: the two interfaces and the event.
Held ==
    [client |-> m_pAudioClient, capture |-> m_pAudioCaptureClient,
     event |-> m_hSampleReadyEvent]

\* Reset that never releases the audio client.
ResetReleaseLeaksClient(held) ==
    /\ m_pAudioCaptureClient' = FALSE
    /\ m_pAudioClient' = held.client
    /\ sessStarted' = FALSE
    /\ sessPackets' = <<>>
    /\ m_hSampleReadyEvent' = FALSE
    /\ m_CaptureState' = "READY"
    /\ stale' = {}

\* Reset after StopThreads: whatever of held is not null is released and set to
\* null; then the state.
ResetRelease(held) ==
    /\ m_pAudioCaptureClient' = FALSE
    /\ m_pAudioClient' = FALSE
    /\ sessStarted' = FALSE
    /\ sessPackets' = <<>>
    /\ m_hSampleReadyEvent' = FALSE
    /\ m_CaptureState' = "READY"
    /\ stale' = {}

\* Bytes in the handoff queue or the staging buffer that have not been passed to
\* the callback.
InFlight ==
    (Range(m_Queue) \cup Range(m_vecIntermediateBuffer)) \ Range(Flatten(cbRanges))

\* What follows StopThreads in the operation that called it.
AfterStopThreads ==
    IF lastOp = "PauseCapture"
    THEN /\ stale' = stale \cup InFlight
         /\ UNCHANGED <<sessionVars, m_CaptureState, eventSignaled>>
    ELSE /\ ResetRelease(Held)
         /\ eventSignaled' = FALSE

\* ------------------------------------------------------------- the life cycle

\* Stages of StartCapture's session setup: the one that fails, or NONE.
StartOutcomes == {"DEVICE", "ACTIVATION", "INITIALIZE", "SERVICE", "EVENT", "START", "NONE"}

\* A recorded call that returns at once and changes nothing else.
Rejected(op, ret) ==
    /\ Returned(op, ret)
    /\ UNCHANGED <<queueAvailable, m_hrLastError, m_CaptureState, cfgVars, sessionVars,
                   threadVars, bufferVars, eventSignaled, nextByte, histVars, skipVars, adapterVars, starterVars>>

\* What StartCapture has acquired when the stage named by outcome fails (at
\* EVENT the event was created and SetEventHandle failed).
Acquired(outcome) ==
    [client  |-> outcome \notin {"DEVICE", "ACTIVATION"},
     capture |-> outcome \in {"EVENT", "START", "NONE"},
     event   |-> outcome \in {"EVENT", "START", "NONE"}]

\* StartCapture with the process-id check before the format check.
StartCaptureGuardSwapped ==
    IF m_CaptureState # "READY" THEN "STATE"
    ELSE IF m_dwProcessId = 0 THEN "PROCESSID"
    ELSE IF ~m_bCaptureFormatInitialized THEN "FORMAT"
    ELSE "NONE"

\* The checks StartCapture makes before it touches the session: the error it
\* returns, or NONE when it goes on.
StartCaptureGuard ==
    IF m_CaptureState # "READY" THEN "STATE"
    ELSE IF ~m_bCaptureFormatInitialized THEN "FORMAT"
    ELSE IF m_dwProcessId = 0 THEN "PROCESSID"
    ELSE "NONE"

\* The session stages of StartCapture in the order of their calls, each named
\* by the error its failure returns.
StageOrder == <<"DEVICE", "ACTIVATION", "INITIALIZE", "SERVICE", "EVENT", "START">>

\* What the stages would return if called: an HRESULT for each (at EVENT, of
\* SetEventHandle on the event just created).
StageResults == [Range(StageOrder) -> HResults]

\* The stage whose failure is reported when the checks are read from the last
\* stage back to the first.
FirstFailureLastWins(hrs) ==
    IF hrs["START"] # "S_OK" THEN "START"
    ELSE IF hrs["EVENT"] # "S_OK" THEN "EVENT"
    ELSE IF hrs["SERVICE"] # "S_OK" THEN "SERVICE"
    ELSE IF hrs["INITIALIZE"] # "S_OK" THEN "INITIALIZE"
    ELSE IF hrs["ACTIVATION"] # "S_OK" THEN "ACTIVATION"
    ELSE IF hrs["DEVICE"] # "S_OK" THEN "DEVICE"
    ELSE "NONE"

\* The stage at which StartCapture returns: each stage is called and its
\* result checked before the next is called.
FirstFailure(hrs) ==
    IF hrs["DEVICE"] # "S_OK" THEN "DEVICE"
    ELSE IF hrs["ACTIVATION"] # "S_OK" THEN "ACTIVATION"
    ELSE IF hrs["INITIALIZE"] # "S_OK" THEN "INITIALIZE"
    ELSE IF hrs["SERVICE"] # "S_OK" THEN "SERVICE"
    ELSE IF hrs["EVENT"] # "S_OK" THEN "EVENT"
    ELSE IF hrs["START"] # "S_OK" THEN "START"
    ELSE "NONE"

\* What StartCapture returns when outcome is how its session stages go.
StartCaptureResult(outcome) ==
    IF StartCaptureGuard # "NONE" THEN StartCaptureGuard ELSE outcome

\* A failing StartCapture that launches the threads before it returns through
\* Reset, which then has them to stop and join.
StartCaptureFailsAfterThreads(outcome) ==
    /\ m_hrLastError' = "E_FAIL"
    /\ lastOp' = "StartCapture"
    /\ lastRet' = outcome
    /\ m_dwMainThreadBytesToSkip' = 0
    /\ m_pMainAudioThread' = ThreadFunction
    /\ mainPc' = "wait"
    /\ IF queueAvailable /\ m_bUseIntermediateBuffer
       THEN /\ m_pQueueAudioThread' = "ProcessIntermediate"
            /\ queuePc' = "loop"
       ELSE /\ m_pQueueAudioThread' = "nullptr"
            /\ queuePc' = "none"
    /\ m_bThreadsStarted' = TRUE
    /\ StopThreadsBegin
    /\ m_pAudioClient' = Acquired(outcome).client
    /\ m_pAudioCaptureClient' = Acquired(outcome).capture
    /\ m_hSampleReadyEvent' = Acquired(outcome).event
    /\ consumed' = <<>>
    /\ skipAtLaunch' = 0
    /\ cbRanges' = <<>>
    /\ UNCHANGED <<queueAvailable, cfgVars, sessStarted, sessPackets, m_CaptureState,
                   stale, bufferVars, nextByte, skipVars, adapterVars, starterVars>>

\* StartCapture past its checks with the stage named by outcome failing:
\* Reset(), whose Stop() is skipped in READY.
StartCaptureFails(outcome) ==
    /\ m_hrLastError' = "E_FAIL"
    /\ lastOp' = "StartCapture"
    /\ lastRet' = outcome
    /\ IF m_bThreadsStarted
       THEN /\ StopThreadsBegin
            /\ m_pAudioClient' = Acquired(outcome).client
            /\ m_pAudioCaptureClient' = Acquired(outcome).capture
            /\ m_hSampleReadyEvent' = Acquired(outcome).event
            /\ UNCHANGED <<sessStarted, sessPackets, m_CaptureState, stale>>
       ELSE /\ ResetRelease(Acquired(outcome))
            /\ eventSignaled' = FALSE
            /\ callerPc' = "idle"
            /\ UNCHANGED <<m_bRunMainAudioThread, m_bRunQueueAudioThread>>
    /\ UNCHANGED <<queueAvailable, cfgVars, m_bThreadsStarted,
                   m_pMainAudioThread, m_dwMainThreadBytesToSkip,
                   m_pQueueAudioThread, mainPc, queuePc, bufferVars, nextByte,
                   consumed, skipAtLaunch, cbRanges, skipVars, adapterVars, starterVars>>

\* StartCapture past its checks with every stage succeeding: the session is
\* started, then StartThreads(0.0), then the state.
StartCaptureSucceeds ==
    /\ m_hrLastError' = "S_OK"
    /\ m_pAudioClient' = TRUE
    /\ m_pAudioCaptureClient' = TRUE
    /\ m_hSampleReadyEvent' = TRUE
    /\ eventSignaled' = FALSE
    /\ sessStarted' = TRUE
    /\ sessPackets' = <<>>
    /\ StartThreads(0)
    /\ m_CaptureState' = "CAPTURING"
    /\ Returned("StartCapture", "NONE")
    /\ UNCHANGED <<queueAvailable, cfgVars, bufferVars, nextByte, stale, skipVars, adapterVars, starterVars>>

\* StartCapture past its checks, with the session stages going as outcome says.
StartCaptureStages(outcome) ==
    IF outcome # "NONE" THEN StartCaptureFails(outcome) ELSE StartCaptureSucceeds

StartCapture ==
    /\ callerPc = "idle"
    /\ IF StartCaptureGuard = "STATE" THEN Refused
       ELSE IF StartCaptureGuard # "NONE" THEN Rejected("StartCapture", StartCaptureGuard)
       ELSE \E hrs \in StageResults : StartCaptureStages(FirstFailure(hrs))

StopCaptureResult == IF m_CaptureState = "READY" THEN "STATE" ELSE "NONE"

\* Reset that also clears m_hrLastError.
ResetBeginClearsError(stopped) ==
    /\ lastOp' = "StopCapture"
    /\ lastRet' = "NONE"
    /\ m_hrLastError' = "S_OK"
    /\ IF m_bThreadsStarted
       THEN /\ StopThreadsBegin
            /\ sessStarted' = IF stopped THEN FALSE ELSE sessStarted
            /\ stale' = {}
            /\ UNCHANGED <<m_pAudioClient, m_pAudioCaptureClient,
                           m_hSampleReadyEvent, sessPackets, m_CaptureState>>
       ELSE /\ ResetRelease(Held)
            /\ eventSignaled' = FALSE
            /\ callerPc' = "idle"
            /\ UNCHANGED <<m_bRunMainAudioThread, m_bRunQueueAudioThread>>
    /\ UNCHANGED <<queueAvailable, cfgVars, m_bThreadsStarted,
                   m_pMainAudioThread, m_dwMainThreadBytesToSkip,
                   m_pQueueAudioThread, mainPc, queuePc, bufferVars, nextByte,
                   consumed, skipAtLaunch, cbRanges, skipVars, adapterVars, starterVars>>

\* Reset that also marks the capture format as not set.
ResetBeginClearsFormat(stopped) ==
    /\ lastOp' = "StopCapture"
    /\ lastRet' = "NONE"
    /\ m_bCaptureFormatInitialized' = FALSE
    /\ IF m_bThreadsStarted
       THEN /\ StopThreadsBegin
            /\ sessStarted' = IF stopped THEN FALSE ELSE sessStarted
            /\ stale' = {}
            /\ UNCHANGED <<m_pAudioClient, m_pAudioCaptureClient,
                           m_hSampleReadyEvent, sessPackets, m_CaptureState>>
       ELSE /\ ResetRelease(Held)
            /\ eventSignaled' = FALSE
            /\ callerPc' = "idle"
            /\ UNCHANGED <<m_bRunMainAudioThread, m_bRunQueueAudioThread>>
    /\ UNCHANGED <<queueAvailable, m_hrLastError, m_CaptureFormat, m_dwProcessId,
                   m_bProcessInclusive, m_bUseIntermediateBuffer, m_pCallbackFunc,
                   m_pCallbackFuncUserData, m_dwCallbackInterval, m_bThreadsStarted,
                   m_pMainAudioThread, m_dwMainThreadBytesToSkip,
                   m_pQueueAudioThread, mainPc, queuePc, bufferVars, nextByte,
                   consumed, skipAtLaunch, cbRanges, skipVars, adapterVars, starterVars>>

\* Reset that releases the session and closes the event before StopThreads.
ResetBeginReleasesFirst(stopped) ==
    /\ lastOp' = "StopCapture"
    /\ lastRet' = "NONE"
    /\ IF m_bThreadsStarted
       THEN /\ StopThreadsBegin
            /\ sessStarted' = IF stopped THEN FALSE ELSE sessStarted
            /\ stale' = {}
            /\ m_pAudioClient' = FALSE
            /\ m_pAudioCaptureClient' = FALSE
            /\ m_hSampleReadyEvent' = FALSE
            /\ UNCHANGED <<sessPackets, m_CaptureState>>
       ELSE /\ ResetRelease(Held)
            /\ eventSignaled' = FALSE
            /\ callerPc' = "idle"
            /\ UNCHANGED <<m_bRunMainAudioThread, m_bRunQueueAudioThread>>
    /\ UNCHANGED <<queueAvailable, m_hrLastError, cfgVars, m_bThreadsStarted,
                   m_pMainAudioThread, m_dwMainThreadBytesToSkip,
                   m_pQueueAudioThread, mainPc, queuePc, bufferVars, nextByte,
                   consumed, skipAtLaunch, cbRanges, skipVars, adapterVars, starterVars>>

\* Reset, called by StopCapture, up to the first join of StopThreads.  stopped:
\* whether the Stop() that Reset issues in CAPTURING stops the session (Reset
\* ignores its result).
ResetBegin(stopped) ==
    /\ lastOp' = "StopCapture"
    /\ lastRet' = "NONE"
    /\ IF m_bThreadsStarted
       THEN /\ StopThreadsBegin
            /\ sessStarted' = IF stopped THEN FALSE ELSE sessStarted
            /\ stale' = {}
            /\ UNCHANGED <<m_pAudioClient, m_pAudioCaptureClient,
                           m_hSampleReadyEvent, sessPackets, m_CaptureState>>
       ELSE /\ ResetRelease(Held)
            /\ eventSignaled' = FALSE
            /\ callerPc' = "idle"
            /\ UNCHANGED <<m_bRunMainAudioThread, m_bRunQueueAudioThread>>
    /\ UNCHANGED <<queueAvailable, m_hrLastError, cfgVars, m_bThreadsStarted,
                   m_pMainAudioThread, m_dwMainThreadBytesToSkip,
                   m_pQueueAudioThread, mainPc, queuePc, bufferVars, nextByte,
                   consumed, skipAtLaunch, cbRanges, skipVars, adapterVars, starterVars>>

StopCapture ==
    /\ callerPc = "idle"
    /\ IF StopCaptureResult = "STATE" THEN Refused
       ELSE IF m_CaptureState = "CAPTURING"
       THEN \E stopped \in BOOLEAN : ResetBegin(stopped)
       ELSE ResetBegin(FALSE)

\* PauseCapture without its state check.
PauseCaptureGuardUnchecked == "NONE"

\* PauseCapture's state check: STATE, or NONE when it goes on.
PauseCaptureGuard == IF m_CaptureState # "CAPTURING" THEN "STATE" ELSE "NONE"

\* What PauseCapture returns when the session's Stop() returns hr.
PauseCaptureResult(hr) ==
    IF PauseCaptureGuard # "NONE" THEN PauseCaptureGuard
    ELSE IF hr # "S_OK" THEN "STOP"
    ELSE "NONE"

\* PauseCapture past its state check, with the session's Stop() returning hr.
PauseCaptureStop(hr) ==
    /\ m_CaptureState' = "PAUSED"
    /\ m_hrLastError' = hr
    /\ lastOp' = "PauseCapture"
    /\ lastRet' = IF hr # "S_OK" THEN "STOP" ELSE "NONE"
    /\ IF hr # "S_OK"
       THEN /\ callerPc' = "idle"
            /\ stale' = stale \cup InFlight
            /\ UNCHANGED <<sessStarted, eventSignaled, m_bRunMainAudioThread,
                           m_bRunQueueAudioThread>>
       ELSE /\ sessStarted' = FALSE
            /\ IF m_bThreadsStarted
               THEN /\ StopThreadsBegin
                    /\ UNCHANGED stale
               ELSE /\ callerPc' = "idle"
                    /\ stale' = stale \cup InFlight
                    /\ UNCHANGED <<eventSignaled, m_bRunMainAudioThread,
                                   m_bRunQueueAudioThread>>
    /\ UNCHANGED <<queueAvailable, cfgVars, m_pAudioClient,
                   m_pAudioCaptureClient, m_hSampleReadyEvent, sessPackets,
                   m_bThreadsStarted, m_pMainAudioThread,
                   m_dwMainThreadBytesToSkip, m_pQueueAudioThread, mainPc,
                   queuePc, bufferVars, nextByte, consumed, skipAtLaunch,
                   cbRanges, skipVars, adapterVars, starterVars>>

PauseCapture ==
    /\ callerPc = "idle"
    /\ IF PauseCaptureGuard = "STATE" THEN Refused
       ELSE \E hr \in HResults : PauseCaptureStop(hr)

\* ResumeCapture's state check: STATE, or NONE when it goes on.
ResumeCaptureGuard == IF m_CaptureState # "PAUSED" THEN "STATE" ELSE "NONE"

\* What ResumeCapture returns when the session's Start() returns hr.
ResumeCaptureResult(ms, hr) ==
    IF ResumeCaptureGuard # "NONE" THEN ResumeCaptureGuard
    ELSE IF hr # "S_OK" THEN "START"
    ELSE "NONE"

\* ResumeCapture past its state check, with the session's Start() returning hr.
ResumeCaptureStart(ms, hr) ==
    /\ m_CaptureState' = "CAPTURING"
    /\ eventSignaled' = FALSE
    /\ m_hrLastError' = hr
    /\ IF hr # "S_OK"
       THEN UNCHANGED <<sessStarted, threadVars, consumed, skipAtLaunch, cbRanges>>
       ELSE /\ sessStarted' = TRUE
            /\ StartThreads(ms)
    /\ Returned("ResumeCapture", IF hr # "S_OK" THEN "START" ELSE "NONE")
    /\ UNCHANGED <<queueAvailable, cfgVars, m_pAudioClient,
                   m_pAudioCaptureClient, m_hSampleReadyEvent, sessPackets,
                   bufferVars, nextByte, stale, skipVars, adapterVars, starterVars>>

\* ResumeCapture(fInitialDurationToSkip), the duration in milliseconds.
ResumeCapture(ms) ==
    /\ callerPc = "idle"
    /\ IF ResumeCaptureGuard = "STATE" THEN Refused
       ELSE \E hr \in HResults : ResumeCaptureStart(ms, hr)

\* StopThreads that flushes and clears after joining the producer alone.
JoinMainOnly ==
    /\ callerPc = "joinMain"
    /\ mainPc = "done"
    /\ m_pMainAudioThread' = "nullptr"
    /\ mainPc' = "none"
    /\ StopThreadsFinish
    /\ AfterStopThreads
    /\ callerPc' = "idle"
    /\ UNCHANGED <<queueAvailable, m_hrLastError, cfgVars, m_bRunMainAudioThread,
                   m_dwMainThreadBytesToSkip, m_pQueueAudioThread, m_bRunQueueAudioThread,
                   queuePc, pData, iByte, nextByte, lastOp, lastRet, skipVars, adapterVars, starterVars>>

\* The caller's join of the producer thread, and what follows it.
JoinMain ==
    /\ callerPc = "joinMain"
    /\ mainPc = "done"
    /\ m_pMainAudioThread' = "nullptr"
    /\ mainPc' = "none"
    /\ IF queueAvailable /\ m_bUseIntermediateBuffer
       THEN /\ callerPc' = "joinQueue"
            /\ UNCHANGED <<m_Queue, m_vecIntermediateBuffer, m_bThreadsStarted,
                           consumed, skipAtLaunch, cbRanges, sessionVars, m_CaptureState,
                           eventSignaled, stale>>
       ELSE /\ StopThreadsFinish
            /\ AfterStopThreads
            /\ callerPc' = "idle"
    /\ UNCHANGED <<queueAvailable, m_hrLastError, cfgVars, m_bRunMainAudioThread,
                   m_dwMainThreadBytesToSkip, m_pQueueAudioThread, m_bRunQueueAudioThread,
                   queuePc, pData, iByte, nextByte, lastOp, lastRet, skipVars, adapterVars, starterVars>>

\* The caller's join of the decoupling thread, and what follows it.
JoinQueue ==
    /\ callerPc = "joinQueue"
    /\ queuePc = "done"
    /\ m_pQueueAudioThread' = "nullptr"
    /\ queuePc' = "none"
    /\ StopThreadsFinish
    /\ AfterStopThreads
    /\ callerPc' = "idle"
    /\ UNCHANGED <<queueAvailable, m_hrLastError, cfgVars, m_pMainAudioThread,
                   m_bRunMainAudioThread, m_dwMainThreadBytesToSkip,
                   m_bRunQueueAudioThread, mainPc, pData, iByte, nextByte, lastOp,
                   lastRet, skipVars, adapterVars, starterVars>>

\* --------------------------------------------------------------- the session

\* The session makes a packet of n whole frames ready and signals the event.
SessionProduce(n) ==
    /\ m_pAudioClient
    /\ sessStarted
    /\ nextByte + n * m_CaptureFormat.nBlockAlign - 1
          <= MaxFrames * m_CaptureFormat.nBlockAlign
    /\ sessPackets' = Append(sessPackets,
            [i \in 1..(n * m_CaptureFormat.nBlockAlign) |-> nextByte + i - 1])
    /\ nextByte' = nextByte + n * m_CaptureFormat.nBlockAlign
    /\ eventSignaled' = m_hSampleReadyEvent
    /\ UNCHANGED <<queueAvailable, m_hrLastError, m_CaptureState, cfgVars, m_pAudioClient,
                   m_pAudioCaptureClient, m_hSampleReadyEvent, sessStarted, threadVars,
                   bufferVars, callVars, histVars, skipVars, adapterVars, starterVars>>

\* ------------------------------------------------------- the producer thread
\* ProcessMainToCallback and ProcessMainToQueue: the same loop, with the
\* staging buffer or the handoff queue as the destination of a byte.

\* while (m_bRunMainAudioThread): the flag is found cleared at the loop head.
MainExit ==
    /\ mainPc = "wait"
    /\ ~m_bRunMainAudioThread
    /\ mainPc' = "done"
    /\ UNCHANGED <<queueAvailable, m_hrLastError, m_CaptureState, cfgVars, sessionVars,
                   m_bThreadsStarted, m_pMainAudioThread, m_bRunMainAudioThread,
                   m_dwMainThreadBytesToSkip, m_pQueueAudioThread, m_bRunQueueAudioThread,
                   queuePc, bufferVars, eventSignaled, nextByte, callVars, histVars,
                   skipVars, adapterVars, starterVars>>

\* A wake that goes on to the drain loop without checking the flag.
MainWakeIgnoresFlag ==
    /\ mainPc = "wait"
    /\ eventSignaled
    /\ eventSignaled' = FALSE
    /\ mainPc' = "drain"
    /\ UNCHANGED <<queueAvailable, m_hrLastError, m_CaptureState, cfgVars, sessionVars,
                   m_bThreadsStarted, m_pMainAudioThread, m_bRunMainAudioThread,
                   m_dwMainThreadBytesToSkip, m_pQueueAudioThread, m_bRunQueueAudioThread,
                   queuePc, bufferVars, nextByte, callVars, histVars, skipVars, adapterVars, starterVars>>

\* WaitForSingleObject returns WAIT_OBJECT_0 (the auto-reset event is consumed),
\* then the flag is checked.
MainWake ==
    /\ mainPc = "wait"
    /\ eventSignaled
    /\ eventSignaled' = FALSE
    /\ mainPc' = IF ~m_bRunMainAudioThread THEN "done" ELSE "drain"
    /\ UNCHANGED <<queueAvailable, m_hrLastError, m_CaptureState, cfgVars, sessionVars,
                   m_bThreadsStarted, m_pMainAudioThread, m_bRunMainAudioThread,
                   m_dwMainThreadBytesToSkip, m_pQueueAudioThread, m_bRunQueueAudioThread,
                   queuePc, bufferVars, nextByte, callVars, histVars, skipVars, adapterVars, starterVars>>

\* A producer whose GetBuffer waits for the decoupling thread to leave the
\* callback.
MainGetBufferAfterCallback ==
    /\ mainPc = "drain"
    /\ queuePc # "callback"
    /\ sessPackets # <<>>
    /\ pData' = Head(sessPackets)
    /\ sessPackets' = Tail(sessPackets)
    /\ iByte' = 0
    /\ mainPc' = "copy"
    /\ UNCHANGED <<queueAvailable, m_hrLastError, m_CaptureState, cfgVars, m_pAudioClient,
                   m_pAudioCaptureClient, m_hSampleReadyEvent, sessStarted,
                   m_bThreadsStarted, m_pMainAudioThread, m_bRunMainAudioThread,
                   m_dwMainThreadBytesToSkip, m_pQueueAudioThread, m_bRunQueueAudioThread,
                   queuePc, m_Queue, m_vecIntermediateBuffer, eventSignaled, nextByte,
                   callVars, histVars, skipVars, adapterVars, starterVars>>

\* GetBuffer returns S_OK with the next packet.
MainGetBuffer ==
    /\ mainPc = "drain"
    /\ sessPackets # <<>>
    /\ pData' = Head(sessPackets)
    /\ sessPackets' = Tail(sessPackets)
    /\ iByte' = 0
    /\ mainPc' = "copy"
    /\ UNCHANGED <<queueAvailable, m_hrLastError, m_CaptureState, cfgVars, m_pAudioClient,
                   m_pAudioCaptureClient, m_hSampleReadyEvent, sessStarted,
                   m_bThreadsStarted, m_pMainAudioThread, m_bRunMainAudioThread,
                   m_dwMainThreadBytesToSkip, m_pQueueAudioThread, m_bRunQueueAudioThread,
                   queuePc, m_Queue, m_vecIntermediateBuffer, eventSignaled, nextByte,
                   callVars, histVars, skipVars, adapterVars, starterVars>>

\* The bytes the byte loop passes over in one step: in ProcessMainToQueue one
\* (the queue is shared with the decoupling thread, which runs between two
\* enqueues); in ProcessMainToCallback, where the loop touches only what the
\* producer owns, all that are left.
CopyCount ==
    IF m_pMainAudioThread = "ProcessMainToQueue" THEN 1 ELSE Len(pData) - iByte

\* A byte loop that drops the bytes of the budget from the end of what it
\* passes over instead of from the head.
MainCopyByteDropsLast ==
    /\ mainPc = "copy"
    /\ iByte < Len(pData)
    /\ LET bytes   == SubSeq(pData, iByte + 1, iByte + CopyCount)
           dropped == Min(m_dwMainThreadBytesToSkip, Len(bytes))
           kept    == SubSeq(bytes, 1, Len(bytes) - dropped)
       IN  /\ iByte' = iByte + Len(bytes)
           /\ consumed' = consumed \o bytes
           /\ m_dwMainThreadBytesToSkip' = m_dwMainThreadBytesToSkip - dropped
           /\ IF m_pMainAudioThread = "ProcessMainToQueue"
              THEN /\ m_Queue' = m_Queue \o kept
                   /\ UNCHANGED m_vecIntermediateBuffer
              ELSE /\ m_vecIntermediateBuffer' = m_vecIntermediateBuffer \o kept
                   /\ UNCHANGED m_Queue
    /\ UNCHANGED <<queueAvailable, m_hrLastError, m_CaptureState, cfgVars, sessionVars,
                   m_bThreadsStarted, m_pMainAudioThread, m_bRunMainAudioThread,
                   m_pQueueAudioThread, m_bRunQueueAudioThread, mainPc, queuePc, pData,
                   eventSignaled, nextByte, callVars, skipAtLaunch, cbRanges, stale,
                   skipVars, adapterVars, starterVars>>

\* The byte loop over pData[iByte+1 .. iByte+CopyCount]: a byte is dropped while
\* the budget is not 0, and appended to the destination after that.
MainCopyByte ==
    /\ mainPc = "copy"
    /\ iByte < Len(pData)
    /\ LET bytes   == SubSeq(pData, iByte + 1, iByte + CopyCount)
           dropped == Min(m_dwMainThreadBytesToSkip, Len(bytes))
       IN  /\ iByte' = iByte + Len(bytes)
           /\ consumed' = consumed \o bytes
           /\ m_dwMainThreadBytesToSkip' = m_dwMainThreadBytesToSkip - dropped
           /\ IF m_pMainAudioThread = "ProcessMainToQueue"
              THEN /\ m_Queue' = m_Queue \o DropN(bytes, dropped)
                   /\ UNCHANGED m_vecIntermediateBuffer
              ELSE /\ m_vecIntermediateBuffer' = m_vecIntermediateBuffer \o DropN(bytes, dropped)
                   /\ UNCHANGED m_Queue
    /\ UNCHANGED <<queueAvailable, m_hrLastError, m_CaptureState, cfgVars, sessionVars,
                   m_bThreadsStarted, m_pMainAudioThread, m_bRunMainAudioThread,
                   m_pQueueAudioThread, m_bRunQueueAudioThread, mainPc, queuePc, pData,
                   eventSignaled, nextByte, callVars, skipAtLaunch, cbRanges, stale,
                   skipVars, adapterVars, starterVars>>

\* A producer that goes back to GetBuffer without ReleaseBuffer.
MainNoReleaseBuffer ==
    /\ mainPc = "copy"
    /\ iByte = Len(pData)
    /\ mainPc' = "drain"
    /\ UNCHANGED <<queueAvailable, m_hrLastError, m_CaptureState, cfgVars, sessionVars,
                   m_bThreadsStarted, m_pMainAudioThread, m_bRunMainAudioThread,
                   m_dwMainThreadBytesToSkip, m_pQueueAudioThread, m_bRunQueueAudioThread,
                   queuePc, bufferVars, eventSignaled, nextByte,
                   callVars, histVars, skipVars, adapterVars, starterVars>>

\* ReleaseBuffer(iFramesAvailable), after the byte loop.
MainReleaseBuffer ==
    /\ mainPc = "copy"
    /\ iByte = Len(pData)
    /\ pData' = <<>>
    /\ iByte' = 0
    /\ mainPc' = "drain"
    /\ UNCHANGED <<queueAvailable, m_hrLastError, m_CaptureState, cfgVars, sessionVars,
                   m_bThreadsStarted, m_pMainAudioThread, m_bRunMainAudioThread,
                   m_dwMainThreadBytesToSkip, m_pQueueAudioThread, m_bRunQueueAudioThread,
                   queuePc, m_Queue, m_vecIntermediateBuffer, eventSignaled, nextByte,
                   callVars, histVars, skipVars, adapterVars, starterVars>>

\* ProcessMainToCallback that hands the staging buffer over between two packets
\* of a wake instead of after the last.
MainDrainedBetweenPackets ==
    /\ mainPc = "drain"
    /\ IF m_pMainAudioThread = "ProcessMainToCallback" /\ Len(m_vecIntermediateBuffer) > 0
       THEN IF m_pCallbackFunc # 0
            THEN /\ mainPc' = "callback"
                 /\ cbRanges' = Append(cbRanges, m_vecIntermediateBuffer)
                 /\ UNCHANGED m_vecIntermediateBuffer
            ELSE /\ mainPc' = "wait"
                 /\ m_vecIntermediateBuffer' = <<>>
                 /\ UNCHANGED cbRanges
       ELSE /\ mainPc' = "wait"
            /\ UNCHANGED <<m_vecIntermediateBuffer, cbRanges>>
    /\ UNCHANGED <<queueAvailable, m_hrLastError, m_CaptureState, cfgVars, sessionVars,
                   m_bThreadsStarted, m_pMainAudioThread, m_bRunMainAudioThread,
                   m_dwMainThreadBytesToSkip, m_pQueueAudioThread, m_bRunQueueAudioThread,
                   queuePc, m_Queue, pData, iByte, eventSignaled, nextByte, callVars,
                   consumed, skipAtLaunch, stale, skipVars, adapterVars, starterVars>>

\* GetBuffer reports no more data: the end of the wake's drain loop.  In
\* ProcessMainToCallback a non-empty staging buffer is passed to the callback
\* (the producer is then inside it) or, with no callback, cleared.
MainDrained ==
    /\ mainPc = "drain"
    /\ sessPackets = <<>>
    /\ IF m_pMainAudioThread = "ProcessMainToCallback" /\ Len(m_vecIntermediateBuffer) > 0
       THEN IF m_pCallbackFunc # 0
            THEN /\ mainPc' = "callback"
                 /\ cbRanges' = Append(cbRanges, m_vecIntermediateBuffer)
                 /\ UNCHANGED m_vecIntermediateBuffer
            ELSE /\ mainPc' = "wait"
                 /\ m_vecIntermediateBuffer' = <<>>
                 /\ UNCHANGED cbRanges
       ELSE /\ mainPc' = "wait"
            /\ UNCHANGED <<m_vecIntermediateBuffer, cbRanges>>
    /\ UNCHANGED <<queueAvailable, m_hrLastError, m_CaptureState, cfgVars, sessionVars,
                   m_bThreadsStarted, m_pMainAudioThread, m_bRunMainAudioThread,
                   m_dwMainThreadBytesToSkip, m_pQueueAudioThread, m_bRunQueueAudioThread,
                   queuePc, m_Queue, pData, iByte, eventSignaled, nextByte, callVars,
                   consumed, skipAtLaunch, stale, skipVars, adapterVars, starterVars>>

\* ProcessMainToCallback that keeps the staging buffer after the callback.
MainCallbackReturnKeepsBuffer ==
    /\ mainPc = "callback"
    /\ mainPc' = "wait"
    /\ UNCHANGED <<queueAvailable, m_hrLastError, m_CaptureState, cfgVars, sessionVars,
                   m_bThreadsStarted, m_pMainAudioThread, m_bRunMainAudioThread,
                   m_dwMainThreadBytesToSkip, m_pQueueAudioThread, m_bRunQueueAudioThread,
                   queuePc, bufferVars, eventSignaled, nextByte, callVars, histVars,
                   skipVars, adapterVars, starterVars>>

\* The callback returns to ProcessMainToCallback, which clears the staging buffer.
MainCallbackReturn ==
    /\ mainPc = "callback"
    /\ m_vecIntermediateBuffer' = <<>>
    /\ mainPc' = "wait"
    /\ UNCHANGED <<queueAvailable, m_hrLastError, m_CaptureState, cfgVars, sessionVars,
                   m_bThreadsStarted, m_pMainAudioThread, m_bRunMainAudioThread,
                   m_dwMainThreadBytesToSkip, m_pQueueAudioThread, m_bRunQueueAudioThread,
                   queuePc, m_Queue, pData, iByte, eventSignaled, nextByte, callVars,
                   histVars, skipVars, adapterVars, starterVars>>

\* ----------------------------------------------------- the decoupling thread
\* ProcessIntermediate.

\* Every staged byte, a trailing part of a frame included.
AlignedSizeWhole(n) == n

\* size / nBlockAlign * nBlockAlign in unsigned arithmetic.
AlignedPrefix(n, nBlockAlign) == (n \div nBlockAlign) * nBlockAlign

\* iAlignedSize for a staging buffer of n bytes.
AlignedSize(n) == AlignedPrefix(n, m_CaptureFormat.nBlockAlign)

\* while (m_bRunQueueAudioThread), after the Sleep of the cycle before.
QueueLoop ==
    /\ queuePc = "loop"
    /\ queuePc' = IF ~m_bRunQueueAudioThread THEN "done" ELSE "dequeue"
    /\ UNCHANGED <<queueAvailable, m_hrLastError, m_CaptureState, cfgVars, sessionVars,
                   m_bThreadsStarted, m_pMainAudioThread, m_bRunMainAudioThread,
                   m_dwMainThreadBytesToSkip, m_pQueueAudioThread, m_bRunQueueAudioThread,
                   mainPc, bufferVars, eventSignaled, nextByte, callVars, histVars,
                   skipVars, adapterVars, starterVars>>

\* try_dequeue succeeds: one byte moves to the staging buffer.
QueueDequeue ==
    /\ queuePc = "dequeue"
    /\ m_Queue # <<>>
    /\ m_vecIntermediateBuffer' = Append(m_vecIntermediateBuffer, Head(m_Queue))
    /\ m_Queue' = Tail(m_Queue)
    /\ UNCHANGED <<queueAvailable, m_hrLastError, m_CaptureState, cfgVars, sessionVars,
                   threadVars, pData, iByte, eventSignaled, nextByte, callVars, histVars,
                   skipVars, adapterVars, starterVars>>

\* ProcessIntermediate that, with no callback, clears the staging buffer
\* instead of erasing its aligned prefix.
QueueAlignDropsStray ==
    /\ queuePc = "dequeue"
    /\ m_Queue = <<>>
    /\ LET iAlignedSize == AlignedSize(Len(m_vecIntermediateBuffer))
       IN  IF iAlignedSize > 0
           THEN IF m_pCallbackFunc # 0
                THEN /\ queuePc' = "callback"
                     /\ cbRanges' = Append(cbRanges,
                                           SubSeq(m_vecIntermediateBuffer, 1, iAlignedSize))
                     /\ UNCHANGED m_vecIntermediateBuffer
                ELSE /\ queuePc' = "loop"
                     /\ m_vecIntermediateBuffer' = <<>>
                     /\ UNCHANGED cbRanges
           ELSE /\ queuePc' = "loop"
                /\ UNCHANGED <<m_vecIntermediateBuffer, cbRanges>>
    /\ UNCHANGED <<queueAvailable, m_hrLastError, m_CaptureState, cfgVars, sessionVars,
                   m_bThreadsStarted, m_pMainAudioThread, m_bRunMainAudioThread,
                   m_dwMainThreadBytesToSkip, m_pQueueAudioThread, m_bRunQueueAudioThread,
                   mainPc, m_Queue, pData, iByte, eventSignaled, nextByte, callVars,
                   consumed, skipAtLaunch, stale, skipVars, adapterVars, starterVars>>

\* try_dequeue fails: the aligned prefix is passed to the callback (the thread
\* is then inside it) or, with no callback, erased.
QueueAlign ==
    /\ queuePc = "dequeue"
    /\ m_Queue = <<>>
    /\ LET iAlignedSize == AlignedSize(Len(m_vecIntermediateBuffer))
       IN  IF iAlignedSize > 0
           THEN IF m_pCallbackFunc # 0
                THEN /\ queuePc' = "callback"
                     /\ cbRanges' = Append(cbRanges,
                                           SubSeq(m_vecIntermediateBuffer, 1, iAlignedSize))
                     /\ UNCHANGED m_vecIntermediateBuffer
                ELSE /\ queuePc' = "loop"
                     /\ m_vecIntermediateBuffer' = DropN(m_vecIntermediateBuffer, iAlignedSize)
                     /\ UNCHANGED cbRanges
           ELSE /\ queuePc' = "loop"
                /\ UNCHANGED <<m_vecIntermediateBuffer, cbRanges>>
    /\ UNCHANGED <<queueAvailable, m_hrLastError, m_CaptureState, cfgVars, sessionVars,
                   m_bThreadsStarted, m_pMainAudioThread, m_bRunMainAudioThread,
                   m_dwMainThreadBytesToSkip, m_pQueueAudioThread, m_bRunQueueAudioThread,
                   mainPc, m_Queue, pData, iByte, eventSignaled, nextByte, callVars,
                   consumed, skipAtLaunch, stale, skipVars, adapterVars, starterVars>>

\* ProcessIntermediate that keeps the aligned prefix after the callback.
QueueCallbackReturnKeepsPrefix ==
    /\ queuePc = "callback"
    /\ queuePc' = "loop"
    /\ UNCHANGED <<queueAvailable, m_hrLastError, m_CaptureState, cfgVars, sessionVars,
                   m_bThreadsStarted, m_pMainAudioThread, m_bRunMainAudioThread,
                   m_dwMainThreadBytesToSkip, m_pQueueAudioThread, m_bRunQueueAudioThread,
                   mainPc, bufferVars, eventSignaled, nextByte, callVars, histVars,
                   skipVars, adapterVars, starterVars>>

\* The callback returns to ProcessIntermediate, which erases the aligned prefix.
QueueCallbackReturn ==
    /\ queuePc = "callback"
    /\ m_vecIntermediateBuffer' =
           DropN(m_vecIntermediateBuffer, AlignedSize(Len(m_vecIntermediateBuffer)))
    /\ queuePc' = "loop"
    /\ UNCHANGED <<queueAvailable, m_hrLastError, m_CaptureState, cfgVars, sessionVars,
                   m_bThreadsStarted, m_pMainAudioThread, m_bRunMainAudioThread,
                   m_dwMainThreadBytesToSkip, m_pQueueAudioThread, m_bRunQueueAudioThread,
                   mainPc, m_Queue, pData, iByte, eventSignaled, nextByte, callVars,
                   histVars, skipVars, adapterVars, starterVars>>

\* ------------------------------------------------------------ specification

\* The threads that call StartCapture at the same time.
Starters == {"A", "B"}

\* The object as its constructor leaves it, in either build.
InitObject ==
    /\ queueAvailable \in BOOLEAN
    /\ m_hrLastError = "S_OK"
    /\ m_CaptureState = "READY"
    /\ m_pAudioClient = FALSE
    /\ m_pAudioCaptureClient = FALSE
    /\ m_hSampleReadyEvent = FALSE
    /\ m_bCaptureFormatInitialized = FALSE
    /\ m_CaptureFormat = ZeroFormat
    /\ m_dwProcessId = 0
    /\ m_bProcessInclusive = FALSE
    /\ m_bUseIntermediateBuffer = TRUE
    /\ m_pCallbackFunc = 0
    /\ m_pCallbackFuncUserData = 0
    /\ m_dwCallbackInterval = DefaultCallbackInterval
    /\ m_bThreadsStarted = FALSE
    /\ m_pMainAudioThread = "nullptr"
    /\ m_bRunMainAudioThread = FALSE
    /\ m_dwMainThreadBytesToSkip = 0
    /\ m_pQueueAudioThread = "nullptr"
    /\ m_bRunQueueAudioThread = FALSE
    /\ m_Queue = <<>>
    /\ m_vecIntermediateBuffer = <<>>
    /\ mainPc = "none"
    /\ pData = <<>>
    /\ iByte = 0
    /\ queuePc = "none"
    /\ sessStarted = FALSE
    /\ sessPackets = <<>>
    /\ eventSignaled = FALSE
    /\ nextByte = 1
    /\ callerPc = "idle"
    /\ lastOp = "constructor"
    /\ lastRet = "NONE"
    /\ consumed = <<>>
    /\ skipAtLaunch = 0
    /\ cbRanges = <<>>
    /\ stale = {}
    /\ m_bActivateFinished = FALSE
    /\ activateOp = "none"
    /\ starterPc = [t \in Starters |-> "idle"]
    /\ starterRet = [t \in Starters |-> "NONE"]

Init ==
    /\ InitObject
    /\ skipIn = <<>>
    /\ skipOut = <<>>

Next ==
    \/ \E a \in FormatArgs : SetCaptureFormat(a[1], a[2], a[3], a[4])
    \/ \E a \in TargetArgs : SetTargetProcess(a[1], a[2])
    \/ \E a \in CallbackArgs : SetCallback(a[1], a[2])
    \/ \E i \in IntervalArgs : SetCallbackInterval(i)
    \/ \E b \in BOOLEAN : SetIntermediateBufferEnabled(b)
    \/ StartCapture
    \/ StopCapture
    \/ PauseCapture
    \/ \E ms \in SkipArgs : ResumeCapture(ms)
    \/ JoinMain
    \/ JoinQueue
    \/ \E n \in PacketFrames : SessionProduce(n)
    \/ MainExit
    \/ MainWake
    \/ MainGetBuffer
    \/ MainCopyByte
    \/ MainReleaseBuffer
    \/ MainDrained
    \/ MainCallbackReturn
    \/ QueueLoop
    \/ QueueDequeue
    \/ QueueAlign
    \/ QueueCallbackReturn

Spec == Init /\ [][Next]_vars

\* ------------------------------------------- the skip budget as a function
\* BytesToSkip over formats SetCaptureFormat accepts and skip durations whose
\* frame count stays below 2^31.

\* <<rate, bit depth, channels, tag>> given to SetCaptureFormat.
SkipFormatArgs ==
    { <<r, b, c, t>> : r \in {MIN_SAMPLE_RATE, 48000, MAX_SAMPLE_RATE},
                       b \in {CHAR_BIT, 2 * CHAR_BIT, MAX_BIT_DEPTH},
                       c \in {MIN_CHANNEL_COUNT, 2, MAX_CHANNEL_COUNT},
                       t \in {WAVE_FORMAT_PCM, WAVE_FORMAT_IEEE_FLOAT} }

\* Skip durations in milliseconds: negative, zero, 0.1 s, 1.5 s, 3000 s.
SkipMsArgs == { -1, 0, 100, 1500, 3000000 }

\* The pairs explored: every format with every duration, 48000 Hz / 16 bit /
\* 2 channels with 25000 s, and 384000 Hz / 24 bit / 1 channel (a block
\* alignment of 3) with 4000 s.
SkipInputs ==
    { [format |-> MakeFormat(a[1], a[2], a[3], a[4]), ms |-> ms] :
          a \in {f \in SkipFormatArgs : FormatParamOk(f[1], f[2], f[3], f[4])},
          ms \in SkipMsArgs }
    \cup { [format |-> MakeFormat(48000, 2 * CHAR_BIT, 2, WAVE_FORMAT_PCM),
            ms |-> 25000000],
           [format |-> MakeFormat(MAX_SAMPLE_RATE, 3 * CHAR_BIT, MIN_CHANNEL_COUNT,
                                  WAVE_FORMAT_PCM),
            ms |-> 4000000] }

InitSkip ==
    /\ InitObject
    /\ skipIn \in {<<in>> : in \in SkipInputs}
    /\ skipOut = <<>>

\* StartThreads computes the budget for skipIn.
SkipCompute ==
    /\ skipOut = <<>>
    /\ skipOut' = <<BytesToSkip(skipIn[1].format, skipIn[1].ms)>>
    /\ UNCHANGED <<objVars, lastOp, lastRet, skipIn, adapterVars, starterVars>>

NextSkip == SkipCompute

SpecSkip == InitSkip /\ [][NextSkip]_vars

\* ------------------------------------------ SetCaptureFormat as a function
\* SetCaptureFormat in READY over arguments at, inside and outside every limit.

\* <<rate, bit depth, channels, tag>>; tag 0 is WAVE_FORMAT_UNKNOWN.
WideFormatArgs ==
    { <<r, b, c, t>> :
          r \in {MIN_SAMPLE_RATE - 1, MIN_SAMPLE_RATE, 48000, MAX_SAMPLE_RATE,
                 MAX_SAMPLE_RATE + 1},
          b \in {0, CHAR_BIT, CHAR_BIT + 4, 2 * CHAR_BIT, 3 * CHAR_BIT, MAX_BIT_DEPTH,
                 MAX_BIT_DEPTH + CHAR_BIT},
          c \in {MIN_CHANNEL_COUNT - 1, MIN_CHANNEL_COUNT, 2, MAX_CHANNEL_COUNT,
                 MAX_CHANNEL_COUNT + 1},
          t \in {0, WAVE_FORMAT_PCM, WAVE_FORMAT_IEEE_FLOAT} }

NextFormat == \E a \in WideFormatArgs : SetCaptureFormat(a[1], a[2], a[3], a[4])

SpecFormat == Init /\ [][NextFormat]_vars

\* --------------------------------------------------------------- properties

NotReady == m_CaptureState \in {"CAPTURING", "PAUSED"}

\* A configuration setter is called and the configuration differs after it.
SetterChangesConfig ==
    /\ \/ \E a \in FormatArgs : SetCaptureFormat(a[1], a[2], a[3], a[4])
       \/ \E a \in TargetArgs : SetTargetProcess(a[1], a[2])
       \/ \E a \in CallbackArgs : SetCallback(a[1], a[2])
       \/ \E i \in IntervalArgs : SetCallbackInterval(i)
       \/ \E b \in BOOLEAN : SetIntermediateBufferEnabled(b)
    /\ cfgVars' # cfgVars

\* The four setters whose first check is the state check return STATE.
CheckedSettersReturnState ==
    /\ \A a \in FormatArgs : SetCaptureFormatResult(a[1], a[2], a[3], a[4]) = "STATE"
    /\ \A a \in TargetArgs : SetTargetProcessResult(a[1], a[2]) = "STATE"
    /\ \A a \in CallbackArgs : SetCallbackResult(a[1], a[2]) = "STATE"
    /\ \A i \in IntervalArgs : SetCallbackIntervalResult(i) = "STATE"

\* C1 as stated: in CAPTURING or PAUSED every configuration setter returns
\* STATE and leaves the stored configuration (format, format-initialized flag,
\* process id, inclusive flag, callback, user data, interval, intermediate-mode
\* flag) unchanged.
C1_SettersReturnState ==
    NotReady =>
        /\ CheckedSettersReturnState
        /\ \A b \in BOOLEAN : SetIntermediateBufferEnabledResult(b) = "STATE"
        /\ ~ENABLED SetterChangesConfig

\* C1, amended: in CAPTURING or PAUSED every configuration setter leaves the
\* stored configuration unchanged and returns STATE, except that
\* SetIntermediateBufferEnabled returns NOT_AVAILABLE in a build without the
\* queue.
C1_SettersRefused ==
    NotReady =>
        /\ CheckedSettersReturnState
        /\ \A b \in BOOLEAN :
              SetIntermediateBufferEnabledResult(b) =
                  IF queueAvailable THEN "STATE" ELSE "NOT_AVAILABLE"
        /\ ~ENABLED SetterChangesConfig

\* A capture is on with a callback configured, in a build without the queue, and
\* SetIntermediateBufferEnabled has just returned NOT_AVAILABLE.
C1_Witness ==
    /\ NotReady
    /\ callerPc = "idle"
    /\ m_pCallbackFunc # 0
    /\ lastOp = "SetIntermediateBufferEnabled"
    /\ lastRet = "NOT_AVAILABLE"

\* A life-cycle operation is called in a state it does not accept and something
\* of the object or its environment differs after it.
WrongStateCallChanges ==
    /\ \/ m_CaptureState # "READY" /\ StartCapture
       \/ m_CaptureState # "CAPTURING" /\ PauseCapture
       \/ \E ms \in SkipArgs : m_CaptureState # "PAUSED" /\ ResumeCapture(ms)
       \/ m_CaptureState = "READY" /\ StopCapture
    /\ objVars' # objVars

\* C2: StartCapture outside READY, PauseCapture outside CAPTURING, ResumeCapture
\* outside PAUSED and StopCapture in READY return STATE and change nothing:
\* state, handles, threads, queue, staging buffer, budget and last error code
\* are as before the call.
C2_WrongStateRefused ==
    /\ m_CaptureState # "READY" =>
          \A o \in StartOutcomes : StartCaptureResult(o) = "STATE"
    /\ m_CaptureState # "CAPTURING" =>
          \A hr \in HResults : PauseCaptureResult(hr) = "STATE"
    /\ m_CaptureState # "PAUSED" =>
          \A ms \in SkipArgs, hr \in HResults : ResumeCaptureResult(ms, hr) = "STATE"
    /\ m_CaptureState = "READY" => StopCaptureResult = "STATE"
    /\ ~ENABLED WrongStateCallChanges

\* PAUSED with the workers alive and bytes in flight, where StartCapture and
\* PauseCapture can be called and are refused.
C2_Witness ==
    /\ callerPc = "idle"
    /\ m_CaptureState = "PAUSED"
    /\ m_bThreadsStarted
    /\ InFlight # {}
    /\ PauseCaptureResult("S_OK") = "STATE"
    /\ ENABLED PauseCapture
    /\ ENABLED StartCapture

\* C3 as stated: when PauseCapture returns STOP or ResumeCapture returns START,
\* the capture state is what it was before the call (CAPTURING for a
\* PauseCapture, PAUSED for a ResumeCapture, which are the states these calls
\* pass their state check in).
C3_StateUnchangedOnFailure ==
    /\ (lastOp = "PauseCapture" /\ lastRet = "STOP") => m_CaptureState = "CAPTURING"
    /\ (lastOp = "ResumeCapture" /\ lastRet = "START") => m_CaptureState = "PAUSED"

\* StartCapture is called and something of the object or its environment
\* differs after it.
StartChangesObject ==
    /\ StartCapture
    /\ objVars' # objVars

\* C4: in READY, StartCapture returns FORMAT if no SetCaptureFormat has
\* succeeded, otherwise PROCESSID if no non-zero process id is set; no session
\* is requested, no thread started, the last error code is not modified and the
\* state stays READY.
C4_StartRejected ==
    (m_CaptureState = "READY" /\ (~m_bCaptureFormatInitialized \/ m_dwProcessId = 0)) =>
        /\ \A o \in StartOutcomes :
              StartCaptureResult(o) =
                  IF ~m_bCaptureFormatInitialized THEN "FORMAT" ELSE "PROCESSID"
        /\ ~ENABLED StartChangesObject

\* StartCapture has just returned PROCESSID with a format set.
C4_Witness ==
    /\ callerPc = "idle"
    /\ lastOp = "StartCapture"
    /\ lastRet = "PROCESSID"
    /\ m_bCaptureFormatInitialized
    /\ m_CaptureState = "READY"

StartFailures == StartOutcomes \ {"NONE"}

\* StartCapture is called and the configuration differs after it.
StartChangesConfig ==
    /\ StartCapture
    /\ cfgVars' # cfgVars

\* StartCapture returns NONE and the state is CAPTURING after it.
RetrySucceeds ==
    /\ StartCapture
    /\ lastOp' = "StartCapture"
    /\ lastRet' = "NONE"
    /\ m_CaptureState' = "CAPTURING"

\* Every stage of StartCapture succeeds and it does not return NONE in CAPTURING.
RetryFails ==
    /\ StartCaptureStages("NONE")
    /\ ~(lastOp' = "StartCapture" /\ lastRet' = "NONE" /\ m_CaptureState' = "CAPTURING")

\* C5: after StartCapture returns DEVICE, ACTIVATION, INITIALIZE, SERVICE, EVENT
\* or START the state is READY, the audio client, the capture client and the
\* event are null and the configuration is intact, and a following StartCapture
\* in which every stage succeeds returns NONE and reaches CAPTURING; after any
\* number of failed starts.
C5_FailedStartRolledBack ==
    /\ (callerPc = "idle" /\ lastOp = "StartCapture" /\ lastRet \in StartFailures) =>
          /\ m_CaptureState = "READY"
          /\ ~m_pAudioClient
          /\ ~m_pAudioCaptureClient
          /\ ~m_hSampleReadyEvent
          /\ ~m_bThreadsStarted
          /\ m_bCaptureFormatInitialized
          /\ m_dwProcessId # 0
          /\ StartCaptureGuard = "NONE"
          /\ ENABLED RetrySucceeds
          /\ ~ENABLED RetryFails
    /\ ~ENABLED StartChangesConfig

\* StartCapture has just failed at its last stage, after an earlier capture in
\* which the session produced bytes.
C5_Witness ==
    /\ callerPc = "idle"
    /\ lastOp = "StartCapture"
    /\ lastRet = "START"
    /\ m_CaptureState = "READY"
    /\ nextByte > 1

\* C6: after StopCapture has run from CAPTURING or PAUSED the state is READY,
\* both worker threads are joined, the session and the event are released, and
\* the handoff queue and the staging buffer are empty; after every cycle.
C6_StoppedClean ==
    (callerPc = "idle" /\ lastOp = "StopCapture" /\ lastRet = "NONE") =>
        /\ m_CaptureState = "READY"
        /\ ~m_bThreadsStarted
        /\ m_pMainAudioThread = "nullptr"
        /\ m_pQueueAudioThread = "nullptr"
        /\ mainPc = "none"
        /\ queuePc = "none"
        /\ ~m_pAudioClient
        /\ ~m_pAudioCaptureClient
        /\ ~m_hSampleReadyEvent
        /\ ~sessStarted
        /\ m_Queue = <<>>
        /\ m_vecIntermediateBuffer = <<>>

\* StopCapture has returned after a capture through the queue in which the
\* session produced every byte of the run.
C6_Witness ==
    /\ callerPc = "idle"
    /\ lastOp = "StopCapture"
    /\ lastRet = "NONE"
    /\ queueAvailable
    /\ m_bUseIntermediateBuffer
    /\ nextByte > MaxFrames * m_CaptureFormat.nBlockAlign

\* C7 as stated: after StopCapture returns NONE the pending-byte budget is zero.
C7_BudgetZeroAfterStop ==
    (callerPc = "idle" /\ lastOp = "StopCapture" /\ lastRet = "NONE") =>
        m_dwMainThreadBytesToSkip = 0

\* C8 as stated: a byte that was queued or staged and not yet passed to the
\* callback at a PauseCapture is never passed to the callback afterwards.
C8_StaleNeverDelivered == Range(Flatten(cbRanges)) \cap stale = {}

\* C10: in direct mode with a callback set, the ranges passed to the callback
\* since the producer's launch, concatenated in order, are the bytes the
\* producer has read from the session with the launch's skip budget removed
\* from the head; what is read and not yet passed is the staging buffer, which
\* is empty whenever the producer waits or has exited.
C10_DirectStream ==
    (m_pMainAudioThread = "ProcessMainToCallback" /\ m_pCallbackFunc # 0) =>
        /\ Flatten(cbRanges)
              \o (IF mainPc = "callback" THEN <<>> ELSE m_vecIntermediateBuffer)
           = DropN(consumed, skipAtLaunch)
        /\ mainPc \in {"wait", "done"} => m_vecIntermediateBuffer = <<>>

\* A direct-mode producer launched by ResumeCapture with a budget of one frame
\* has read two frames and has passed a range to the callback.
C10_Witness ==
    /\ m_pMainAudioThread = "ProcessMainToCallback"
    /\ m_pCallbackFunc # 0
    /\ skipAtLaunch > 0
    /\ Len(consumed) > skipAtLaunch
    /\ cbRanges # <<>>
    /\ mainPc = "wait"

\* The product frames * nBlockAlign of skipIn, in full.
ExactBytesToSkip ==
    MulLimbs(SkipFrames(skipIn[1].format.nSamplesPerSec, skipIn[1].ms),
             skipIn[1].format.nBlockAlign)

\* C9 as stated: the budget is floor(max(d, 0) * sampleRate) * blockAlign
\* exactly, not reduced modulo 2^32, for every valid format and duration.
C9_BudgetExact ==
    skipOut # <<>> =>
        /\ ExactBytesToSkip.over = 0
        /\ skipOut[1] = [hi |-> ExactBytesToSkip.hi, lo |-> ExactBytesToSkip.lo]

\* C9's example: 48000 Hz, block alignment 4, 0.1 s gives 19200 bytes.
C9_Witness ==
    /\ skipOut # <<>>
    /\ skipIn[1].format.nSamplesPerSec = 48000
    /\ skipIn[1].format.nBlockAlign = 4
    /\ skipIn[1].ms = 100
    /\ DwordValue(skipOut[1]) = 19200

\* The decoupling thread of the current launch exists: callbacks come from it.
DecouplingMode == m_pQueueAudioThread = "ProcessIntermediate"

\* C11: in decoupling mode every range passed to the callback has a length that
\* is a non-zero multiple of the block alignment; a trailing part of a frame
\* stays in the staging buffer.
C11_QueueRangesWholeFrames ==
    DecouplingMode =>
        /\ \A i \in 1..Len(cbRanges) :
              /\ Len(cbRanges[i]) > 0
              /\ Len(cbRanges[i]) % m_CaptureFormat.nBlockAlign = 0
        /\ queuePc = "callback" =>
              m_vecIntermediateBuffer
                  = cbRanges[Len(cbRanges)]
                      \o DropN(m_vecIntermediateBuffer, Len(cbRanges[Len(cbRanges)]))

\* The decoupling thread is inside the callback with a whole frame while the
\* first byte of the next frame stays behind it in the staging buffer.
C11_Witness ==
    /\ DecouplingMode
    /\ queuePc = "callback"
    /\ Len(m_vecIntermediateBuffer) % m_CaptureFormat.nBlockAlign # 0
    /\ Len(cbRanges[Len(cbRanges)]) < Len(m_vecIntermediateBuffer)

\* A DWORD modulo n, for n below 2^15.
DwordMod(dw, n) == ((dw.hi % n) * (Limb % n) + dw.lo) % n

\* With the budgets of Spec (no product reaches 2^32): every range a direct-mode
\* producer passes is a non-zero number of whole frames and starts on a frame
\* boundary of the session's stream, whose bytes are numbered from 1.
DirectRangesWholeFrames ==
    m_pMainAudioThread = "ProcessMainToCallback" =>
        \A i \in 1..Len(cbRanges) :
            /\ Len(cbRanges[i]) > 0
            /\ Len(cbRanges[i]) % m_CaptureFormat.nBlockAlign = 0
            /\ (cbRanges[i][1] - 1) % m_CaptureFormat.nBlockAlign = 0

\* C12 as stated: for every skip duration the pending-byte budget StartThreads
\* stores is a multiple of the block alignment, so that a direct-mode range
\* starts on a frame boundary and is a whole number of frames.
C12_BudgetWholeFrames ==
    skipOut # <<>> => DwordMod(skipOut[1], skipIn[1].format.nBlockAlign) = 0

\* The bytes the producer of the current launch has enqueued: what it read
\* from the session, less the launch's skip budget.
Enqueued == DropN(consumed, skipAtLaunch)

\* The staged bytes that no callback has been given.
StagedUndelivered ==
    IF queuePc = "callback"
    THEN DropN(m_vecIntermediateBuffer, Len(cbRanges[Len(cbRanges)]))
    ELSE m_vecIntermediateBuffer

\* C13: in decoupling mode the ranges passed to the callback since the launch,
\* concatenated in order, are a prefix of the bytes the producer enqueued; the
\* rest of the enqueued bytes, when a callback is set, are the staged bytes not
\* yet passed, followed by the handoff queue.
C13_QueueStreamPrefix ==
    DecouplingMode =>
        /\ Len(Flatten(cbRanges)) <= Len(Enqueued)
        /\ Flatten(cbRanges) = SubSeq(Enqueued, 1, Len(Flatten(cbRanges)))
        /\ m_pCallbackFunc # 0 =>
              Enqueued = Flatten(cbRanges) \o StagedUndelivered \o m_Queue

\* The decoupling thread has passed two ranges, one frame each, in one launch.
C13_Witness ==
    /\ DecouplingMode
    /\ m_pCallbackFunc # 0
    /\ Len(cbRanges) = 2
    /\ queuePc = "loop"
    /\ Len(Enqueued) = 2 * m_CaptureFormat.nBlockAlign

\* A worker thread is alive: created, and not yet returned from its function.
ThreadAlive(pc) == pc \notin {"none", "done"}

\* C14 as stated: whenever no call is in progress and the state is READY or
\* PAUSED, neither the producer nor the decoupling thread is alive.
C14_NoWorkerOutsideCapturing ==
    (callerPc = "idle" /\ m_CaptureState \in {"READY", "PAUSED"}) =>
        /\ ~ThreadAlive(mainPc)
        /\ ~ThreadAlive(queuePc)

\* C15 as stated: whenever no call is in progress and the state is CAPTURING,
\* the producer is alive, and the decoupling thread is alive exactly when
\* intermediate mode is enabled and available.
C15_WorkersWhileCapturing ==
    (callerPc = "idle" /\ m_CaptureState = "CAPTURING") =>
        /\ ThreadAlive(mainPc)
        /\ ThreadAlive(queuePc) <=> (queueAvailable /\ m_bUseIntermediateBuffer)

\* C16: after every SetCaptureFormat that returns NONE the stored format has
\* the rate and channel count given and the bit depth given (32 for IEEE
\* float), nBlockAlign = nChannels * wBitsPerSample / 8 > 0 and
\* nAvgBytesPerSec = nSamplesPerSec * nBlockAlign, not reduced modulo 2^32.
DerivedFieldsOk(f) ==
    /\ f.nBlockAlign > 0
    /\ f.nBlockAlign = (f.nChannels * f.wBitsPerSample) \div CHAR_BIT
    /\ MulLimbs(f.nSamplesPerSec, f.nBlockAlign).over = 0
    /\ f.nAvgBytesPerSec = f.nSamplesPerSec * f.nBlockAlign

C16_DerivedFields ==
    /\ m_bCaptureFormatInitialized => DerivedFieldsOk(m_CaptureFormat)
    /\ \A a \in WideFormatArgs :
          ~ENABLED (/\ SetCaptureFormat(a[1], a[2], a[3], a[4])
                    /\ lastRet' = "NONE"
                    /\ ~(/\ m_bCaptureFormatInitialized'
                          /\ m_CaptureFormat'.nSamplesPerSec = a[1]
                          /\ m_CaptureFormat'.nChannels = a[3]
                          /\ m_CaptureFormat'.wBitsPerSample
                                = (IF a[4] = WAVE_FORMAT_IEEE_FLOAT THEN 32 ELSE a[2])
                          /\ m_CaptureFormat'.wFormatTag = a[4]
                          /\ DerivedFieldsOk(m_CaptureFormat')))

\* The largest accepted format is stored: 384000 Hz, IEEE float, 1024 channels,
\* a block alignment of 4096 and 1 572 864 000 bytes per second.
C16_Witness ==
    /\ lastOp = "SetCaptureFormat"
    /\ lastRet = "NONE"
    /\ m_CaptureFormat.nSamplesPerSec = MAX_SAMPLE_RATE
    /\ m_CaptureFormat.nChannels = MAX_CHANNEL_COUNT
    /\ m_CaptureFormat.wFormatTag = WAVE_FORMAT_IEEE_FLOAT
    /\ m_CaptureFormat.nBlockAlign = 4096
    /\ m_CaptureFormat.nAvgBytesPerSec = 1572864000

\* The arguments C17 names: a rate outside its bounds, a bit depth of 0, above
\* the maximum or not a multiple of 8, a channel count outside its bounds, or
\* a tag that is neither PCM nor IEEE float.
InvalidFormatArgs(a) ==
    \/ a[1] < MIN_SAMPLE_RATE
    \/ a[1] > MAX_SAMPLE_RATE
    \/ a[2] = 0
    \/ a[2] > MAX_BIT_DEPTH
    \/ a[2] % 8 # 0
    \/ a[3] < MIN_CHANNEL_COUNT
    \/ a[3] > MAX_CHANNEL_COUNT
    \/ a[4] \notin {WAVE_FORMAT_PCM, WAVE_FORMAT_IEEE_FLOAT}

\* C17: in READY SetCaptureFormat returns PARAM for each of those arguments,
\* and no call that returns PARAM changes the stored format, the
\* format-initialized flag or what CopyCaptureFormat returns.
C17_InvalidFormatRefused ==
    m_CaptureState = "READY" =>
        \A a \in WideFormatArgs :
            /\ InvalidFormatArgs(a) =>
                  SetCaptureFormatResult(a[1], a[2], a[3], a[4]) = "PARAM"
            /\ ~ENABLED (/\ SetCaptureFormat(a[1], a[2], a[3], a[4])
                          /\ lastRet' = "PARAM"
                          /\ \/ m_CaptureFormat' # m_CaptureFormat
                             \/ m_bCaptureFormatInitialized' # m_bCaptureFormatInitialized
                             \/ CopyCaptureFormat' # CopyCaptureFormat)

\* A call has returned PARAM after an earlier one had stored 48000 Hz, 24 bit,
\* 2 channels, which CopyCaptureFormat still returns.
C17_Witness ==
    /\ lastOp = "SetCaptureFormat"
    /\ lastRet = "PARAM"
    /\ CopyCaptureFormat.ret
    /\ CopyCaptureFormat.Format[1].nSamplesPerSec = 48000
    /\ CopyCaptureFormat.Format[1].nBlockAlign = 6

\* IEEE float with a sample rate and a channel count within their bounds.
FloatArgs ==
    { a \in WideFormatArgs :
          /\ a[4] = WAVE_FORMAT_IEEE_FLOAT
          /\ a[1] >= MIN_SAMPLE_RATE /\ a[1] <= MAX_SAMPLE_RATE
          /\ a[3] >= MIN_CHANNEL_COUNT /\ a[3] <= MAX_CHANNEL_COUNT }

\* C18 as stated: with IEEE float and an in-range rate and channel count the
\* call returns NONE for every bit-depth argument.
C18_FloatAnyDepthAccepted ==
    m_CaptureState = "READY" =>
        \A a \in FloatArgs : SetCaptureFormatResult(a[1], a[2], a[3], a[4]) = "NONE"

\* C18: with IEEE float and an in-range rate and channel count, the call
\* returns NONE for every bit depth that is a non-zero multiple of 8 up to the
\* maximum, and stores a bit depth of 32 and a block alignment of 4 bytes per
\* channel; for any other bit depth it returns PARAM.
C18_FloatForcesDepth ==
    m_CaptureState = "READY" =>
        \A a \in FloatArgs :
            IF a[2] # 0 /\ a[2] <= MAX_BIT_DEPTH /\ a[2] % 8 = 0
            THEN /\ SetCaptureFormatResult(a[1], a[2], a[3], a[4]) = "NONE"
                 /\ ~ENABLED (/\ SetCaptureFormat(a[1], a[2], a[3], a[4])
                               /\ ~(/\ m_CaptureFormat'.wBitsPerSample = 32
                                     /\ m_CaptureFormat'.nBlockAlign = a[3] * 4))
            ELSE SetCaptureFormatResult(a[1], a[2], a[3], a[4]) = "PARAM"

\* An IEEE float format of 2 channels is stored with 32 bits and a block
\* alignment of 8, and the same call with a bit depth of 8 stores the same.
C18_Witness ==
    /\ lastOp = "SetCaptureFormat"
    /\ lastRet = "NONE"
    /\ m_CaptureFormat.wFormatTag = WAVE_FORMAT_IEEE_FLOAT
    /\ m_CaptureFormat.nChannels = 2
    /\ m_CaptureFormat.wBitsPerSample = 32
    /\ m_CaptureFormat.nBlockAlign = 8
    /\ ENABLED (/\ SetCaptureFormat(m_CaptureFormat.nSamplesPerSec, CHAR_BIT, 2,
                                    WAVE_FORMAT_IEEE_FLOAT)
                /\ m_CaptureFormat' = m_CaptureFormat)

\* What C19 says of a step: a SetTargetProcess made in READY with process id 0
\* returns PARAM and leaves the stored id and inclusive flag, with another id
\* it returns NONE and stores both; and no step of any operation or thread
\* turns a non-zero stored id into zero.
TargetProcessStep ==
    /\ \A a \in TargetArgs :
          (m_CaptureState = "READY" /\ SetTargetProcess(a[1], a[2])) =>
              IF a[1] = 0
              THEN /\ lastRet' = "PARAM"
                   /\ UNCHANGED <<m_dwProcessId, m_bProcessInclusive>>
              ELSE /\ lastRet' = "NONE"
                   /\ m_dwProcessId' = a[1]
                   /\ m_bProcessInclusive' = a[2]
    /\ m_dwProcessId # 0 => m_dwProcessId' # 0

\* C19: every step is such a step.
C19_TargetProcess == [][TargetProcessStep]_vars

\* SetTargetProcess(0) has returned PARAM after an earlier call had stored
\* process 7, inclusive, which is still stored.
C19_Witness ==
    /\ lastOp = "SetTargetProcess"
    /\ lastRet = "PARAM"
    /\ m_dwProcessId = 7
    /\ m_bProcessInclusive

\* C20 as stated: SetCallbackInterval returns NONE for every input in every
\* capture state.
C20_IntervalNeverRefused ==
    \A i \in IntervalArgs : SetCallbackIntervalResult(i) = "NONE"

\* C20: in READY SetCallbackInterval returns NONE for every input and stores
\* max(1, input); in CAPTURING and PAUSED it returns STATE and leaves the
\* stored interval; the stored interval is always at least 1.
C20_IntervalClamped ==
    /\ m_dwCallbackInterval >= 1
    /\ \A i \in IntervalArgs :
          /\ SetCallbackIntervalResult(i)
                = (IF m_CaptureState = "READY" THEN "NONE" ELSE "STATE")
          /\ ~ENABLED (/\ SetCallbackInterval(i)
                        /\ m_dwCallbackInterval'
                              # (IF m_CaptureState # "READY" THEN m_dwCallbackInterval
                                 ELSE IF i > 1 THEN i ELSE 1))

\* SetCallbackInterval(0) has returned NONE and the stored interval is 1.
C20_Witness ==
    /\ lastOp = "SetCallbackInterval"
    /\ lastRet = "NONE"
    /\ m_dwCallbackInterval = 1
    /\ m_CaptureState = "READY"

\* C21: in a build without the queue SetIntermediateBufferEnabled returns
\* NOT_AVAILABLE for every argument and changes nothing, so the flag keeps its
\* default (enabled); the producer runs ProcessMainToCallback, no decoupling
\* thread is created, StopThreads joins the producer alone, and nothing is
\* ever put in the handoff queue.
C21_NoQueueBuildIsDirect ==
    ~queueAvailable =>
        /\ \A b \in BOOLEAN :
              /\ SetIntermediateBufferEnabledResult(b) = "NOT_AVAILABLE"
              /\ ~ENABLED (SetIntermediateBufferEnabled(b) /\ objVars' # objVars)
        /\ m_bUseIntermediateBuffer
        /\ m_pMainAudioThread \in {"nullptr", "ProcessMainToCallback"}
        /\ ThreadAlive(mainPc) => m_pMainAudioThread = "ProcessMainToCallback"
        /\ m_pQueueAudioThread = "nullptr"
        /\ queuePc = "none"
        /\ callerPc # "joinQueue"
        /\ m_Queue = <<>>

\* In a build without the queue, with the flag at its default, a StopCapture
\* has joined a producer that had passed a range to the callback.
C21_Witness ==
    /\ ~queueAvailable
    /\ m_bUseIntermediateBuffer
    /\ lastOp = "StopCapture"
    /\ callerPc = "joinMain"
    /\ mainPc = "done"
    /\ m_pMainAudioThread = "ProcessMainToCallback"
    /\ cbRanges # <<>>

\* A call that touches the device session: StartCapture past its checks,
\* PauseCapture in CAPTURING, ResumeCapture in PAUSED.
SessionCallStep ==
    \/ StartCaptureGuard = "NONE" /\ StartCapture
    \/ PauseCaptureGuard = "NONE" /\ PauseCapture
    \/ ResumeCaptureGuard = "NONE" /\ \E ms \in SkipArgs : ResumeCapture(ms)

\* A call that returns a configuration error, or a StopCapture.
ConfigErrorOrStopStep ==
    \/ /\ \/ \E a \in FormatArgs : SetCaptureFormat(a[1], a[2], a[3], a[4])
          \/ \E a \in TargetArgs : SetTargetProcess(a[1], a[2])
          \/ \E a \in CallbackArgs : SetCallback(a[1], a[2])
          \/ \E i \in IntervalArgs : SetCallbackInterval(i)
          \/ \E b \in BOOLEAN : SetIntermediateBufferEnabled(b)
          \/ StartCapture
          \/ PauseCapture
          \/ \E ms \in SkipArgs : ResumeCapture(ms)
       /\ \/ lastRet' \in {"PARAM", "FORMAT", "PROCESSID", "NOT_AVAILABLE"}
          \/ UNCHANGED vars
    \/ StopCapture

\* What C22 says of a step: one that changes m_hrLastError is a call that
\* touches the device session, and a call that returns a configuration error
\* (a call that returns STATE changes nothing at all) or a StopCapture, the
\* joins that complete it included, leaves it.
LastErrorStep ==
    m_hrLastError' # m_hrLastError =>
        /\ SessionCallStep
        /\ ~ConfigErrorOrStopStep
        /\ ~(lastOp = "StopCapture" /\ callerPc # "idle")

\* C22: every step is such a step.
C22_LastErrorFrame == [][LastErrorStep]_vars

\* StopCapture has returned and m_hrLastError still holds the failure of an
\* earlier PauseCapture or ResumeCapture.
C22_Witness ==
    /\ lastOp = "StopCapture"
    /\ callerPc = "idle"
    /\ m_CaptureState = "READY"
    /\ m_hrLastError = "E_FAIL"

\* The positions in StageOrder of the stages that fail under hrs.
FailingStages(hrs) == {i \in 1..Len(StageOrder) : hrs[StageOrder[i]] # "S_OK"}

\* The position of the first of them.
FirstFailing(hrs) == CHOOSE i \in FailingStages(hrs) : \A j \in FailingStages(hrs) : i <= j

\* StartCapture runs its stages under hrs and does not end as C23 says: with
\* every stage succeeding, NONE in CAPTURING with the session held; otherwise
\* the error of the first failing stage and that stage's HRESULT, with only
\* the stages up to it having acquired anything.
StartMisreportsStage(hrs) ==
    /\ StartCaptureStages(FirstFailure(hrs))
    /\ ~ IF FailingStages(hrs) = {}
         THEN /\ lastRet' = "NONE"
              /\ m_hrLastError' = "S_OK"
              /\ m_CaptureState' = "CAPTURING"
              /\ m_pAudioClient' /\ m_pAudioCaptureClient' /\ m_hSampleReadyEvent'
         ELSE /\ lastRet' = StageOrder[FirstFailing(hrs)]
              /\ m_hrLastError' = hrs[StageOrder[FirstFailing(hrs)]]
              /\ Acquired(FirstFailure(hrs)) =
                    [client  |-> FirstFailing(hrs) > 2,
                     capture |-> FirstFailing(hrs) > 4,
                     event   |-> FirstFailing(hrs) > 4]
              /\ ~sessStarted'

\* C23: whatever each stage would return, a StartCapture past its checks
\* returns the error of the first stage, in the order DEVICE, ACTIVATION,
\* INITIALIZE, SERVICE, EVENT, START, whose result is a failure, whatever the
\* later stages would have returned, and NONE when none fails.
C23_FirstFailingStage ==
    (callerPc = "idle" /\ StartCaptureGuard = "NONE") =>
        \A hrs \in StageResults :
            /\ ENABLED StartCaptureStages(FirstFailure(hrs))
            /\ ~ENABLED StartMisreportsStage(hrs)

\* StartCapture has returned INITIALIZE: the third stage failed after the
\* first two had succeeded.
C23_Witness ==
    /\ callerPc = "idle"
    /\ lastOp = "StartCapture"
    /\ lastRet = "INITIALIZE"
    /\ m_hrLastError = "E_FAIL"
    /\ m_CaptureState = "READY"

\* StartCapture runs its stages under hrs and ends with worker threads that
\* the start of the session does not warrant, or in CAPTURING without them.
StartOutOfOrder(hrs) ==
    /\ StartCaptureStages(FirstFailure(hrs))
    /\ \/ m_bThreadsStarted' /\ ~(hrs["START"] = "S_OK" /\ sessStarted' /\ lastRet' = "NONE")
       \/ m_CaptureState' = "CAPTURING"
             /\ ~(m_bThreadsStarted' /\ ThreadAlive(mainPc'))
       \/ lastRet' # "NONE" /\ (ThreadAlive(mainPc') \/ ThreadAlive(queuePc'))

\* C24: a StartCapture leaves worker threads only if its last stage, the start
\* of the session, succeeded, and leaves CAPTURING only with the threads
\* launched; from a StartCapture that returns a stage error until the next
\* call no worker thread exists, none is being joined, and no range has been
\* passed to the callback; a worker thread exists only while the threads are
\* marked started and the session and its event are held.
C24_ThreadsAfterSessionStart ==
    /\ (callerPc = "idle" /\ StartCaptureGuard = "NONE") =>
          \A hrs \in StageResults : ~ENABLED StartOutOfOrder(hrs)
    /\ (lastOp = "StartCapture" /\ lastRet \in StartFailures) =>
          /\ callerPc = "idle"
          /\ m_CaptureState = "READY"
          /\ ~m_bThreadsStarted
          /\ m_pMainAudioThread = "nullptr"
          /\ m_pQueueAudioThread = "nullptr"
          /\ mainPc = "none"
          /\ queuePc = "none"
          /\ cbRanges = <<>>
    /\ (lastOp = "StartCapture" /\ lastRet = "NONE") =>
          m_CaptureState = "CAPTURING" /\ m_bThreadsStarted
    /\ (mainPc # "none" \/ queuePc # "none") =>
          m_bThreadsStarted /\ m_pAudioClient /\ m_hSampleReadyEvent

\* With a callback set, StartCapture has failed at the start of the session:
\* no thread exists and the callback has not been called.
C24_Witness ==
    /\ callerPc = "idle"
    /\ lastOp = "StartCapture"
    /\ lastRet = "START"
    /\ m_pCallbackFunc # 0
    /\ mainPc = "none"
    /\ cbRanges = <<>>

\* ResumeCapture(ms) gets Start() to succeed and ends without freshly launched
\* threads or with a budget other than the one ms and the format give.
ResumeKeepsThreads(ms) ==
    /\ ResumeCaptureStart(ms, "S_OK")
    /\ \/ m_dwMainThreadBytesToSkip' # DwordValue(BytesToSkip(m_CaptureFormat, ms))
       \/ ~m_bThreadsStarted'
       \/ mainPc' # "wait"
       \/ consumed' # <<>>

\* C25 as stated: in every PAUSED state, the one left by a PauseCapture that
\* returned STOP included, a ResumeCapture(ms) that returns NONE launches the
\* threads afresh with the budget computed from ms and the format; a
\* StartCapture that returns NONE leaves the budget 0.
C25_RestartRecomputesBudget ==
    /\ (callerPc = "idle" /\ m_CaptureState = "PAUSED") =>
          \A ms \in SkipArgs : ~ENABLED ResumeKeepsThreads(ms)
    /\ (callerPc = "idle" /\ StartCaptureGuard = "NONE") =>
          ~ENABLED (StartCaptureSucceeds /\ m_dwMainThreadBytesToSkip' # 0)

\* The same with the PAUSED states left by a PauseCapture that returned STOP
\* set aside: there the threads are still marked started.
C25_RestartAfterJoinedPause ==
    /\ (callerPc = "idle" /\ m_CaptureState = "PAUSED" /\ ~m_bThreadsStarted) =>
          \A ms \in SkipArgs : ~ENABLED ResumeKeepsThreads(ms)
    /\ (callerPc = "idle" /\ StartCaptureGuard = "NONE") =>
          ~ENABLED (StartCaptureSucceeds /\ m_dwMainThreadBytesToSkip' # 0)

\* The producer leaves its wait, by the signal or at the loop head, and does
\* something other than exit with the session's packets, the queue, the staging
\* buffer, the budget and the callback's ranges untouched.
ProducerProcessesAfterStop ==
    /\ MainWake \/ MainExit
    /\ \/ mainPc' # "done"
       \/ sessPackets' # sessPackets
       \/ bufferVars' # bufferVars
       \/ m_dwMainThreadBytesToSkip' # m_dwMainThreadBytesToSkip
       \/ consumed' # consumed
       \/ cbRanges' # cbRanges

\* C26: with the run flag cleared by StopThreads and the producer at its wait,
\* the producer's next step is its exit: it pulls no packet, appends nothing to
\* the queue or the staging buffer and does not call the callback.  The
\* producer is past its wait with the flag cleared only in a drain it began
\* while the flag was set, so only while the caller waits to join it.
C26_WakeAfterStopExits ==
    /\ (mainPc = "wait" /\ ~m_bRunMainAudioThread) =>
          /\ callerPc = "joinMain"
          /\ ENABLED MainExit
          /\ ~ENABLED ProducerProcessesAfterStop
    /\ (mainPc \in {"drain", "copy", "callback", "done"} /\ ~m_bRunMainAudioThread) =>
          callerPc = "joinMain"

\* The producer has exited on a stop request with a packet of the session left
\* unpulled and the forced signal consumed.
C26_Witness ==
    /\ callerPc = "joinMain"
    /\ mainPc = "done"
    /\ ~m_bRunMainAudioThread
    /\ ~eventSignaled
    /\ sessPackets # <<>>

\* The producer runs ProcessMainToCallback.
DirectMode == m_pMainAudioThread = "ProcessMainToCallback"

\* A step of the producer.
ProducerStep ==
    \/ MainExit
    \/ MainWake
    \/ MainGetBuffer
    \/ MainCopyByte
    \/ MainReleaseBuffer
    \/ MainDrained
    \/ MainCallbackReturn

\* The producer calls the callback elsewhere than at the end of its drain loop
\* with the session holding no packet, or with a range that is empty or is not
\* the whole staging buffer.
DirectCallbackOutOfPlace ==
    /\ ProducerStep
    /\ cbRanges' # cbRanges
    /\ ~ /\ mainPc = "drain"
         /\ sessPackets = <<>>
         /\ m_vecIntermediateBuffer # <<>>
         /\ cbRanges' = Append(cbRanges, m_vecIntermediateBuffer)
         /\ mainPc' = "callback"

\* The producer ends a wake's processing, from the end of the drain loop or from
\* the callback, elsewhere than at its wait with the staging buffer empty.
DirectWakeEndsDirty ==
    /\ \/ MainDrained /\ mainPc' # "callback"
       \/ MainCallbackReturn
    /\ ~(mainPc' = "wait" /\ m_vecIntermediateBuffer' = <<>>)

\* C27: in direct mode the producer calls the callback only at the end of a
\* wake's drain loop, when the session has no packet left, only with a
\* non-empty staging buffer and with all of it as the range; from the callback
\* it goes back to its wait, so a wake has at most one call; and when a wake's
\* processing ends, with or without a callback, the staging buffer is empty.
C27_DirectDelivery ==
    DirectMode =>
        /\ ~ENABLED DirectCallbackOutOfPlace
        /\ ~ENABLED DirectWakeEndsDirty
        /\ mainPc \in {"wait", "done"} => m_vecIntermediateBuffer = <<>>
        /\ mainPc = "callback" =>
              /\ cbRanges # <<>>
              /\ cbRanges[Len(cbRanges)] = m_vecIntermediateBuffer
              /\ m_vecIntermediateBuffer # <<>>

\* The producer is in its first callback of a launch, with every frame the
\* session produced as one range.
C27_Witness ==
    /\ DirectMode
    /\ mainPc = "callback"
    /\ Len(cbRanges) = 1
    /\ Len(m_vecIntermediateBuffer) = MaxFrames * m_CaptureFormat.nBlockAlign
    /\ skipAtLaunch = 0

\* Staging sizes and block alignments the aligned size is computed for, the
\* 4103 bytes of 4-byte frames among them.
StagedSizes == (0..12) \cup {4100, 4103}
BlockAligns == {1, 2, 3, 4, 6, 8}

\* The aligned size of n bytes is the largest multiple of the block alignment
\* that is at most n, and leaves n mod the block alignment; 4103 bytes of
\* 4-byte frames give 4100 and leave 3.
AlignedPrefixExact ==
    /\ \A n \in StagedSizes : \A a \in BlockAligns :
          /\ AlignedPrefix(n, a) % a = 0
          /\ AlignedPrefix(n, a) <= n
          /\ n - AlignedPrefix(n, a) = n % a
    /\ AlignedPrefix(4103, 4) = 4100
    /\ 4103 - AlignedPrefix(4103, 4) = 3

\* The decoupling thread ends its drain of the queue otherwise than by handing
\* over, or with no callback erasing, the whole frames at the head of the staging
\* buffer, nothing when there is none.
CycleSplitsWrongly ==
    /\ QueueAlign
    /\ LET n == Len(m_vecIntermediateBuffer)
           k == n - (n % m_CaptureFormat.nBlockAlign)
       IN  ~ IF k = 0
               THEN /\ cbRanges' = cbRanges
                    /\ m_vecIntermediateBuffer' = m_vecIntermediateBuffer
                    /\ queuePc' = "loop"
             ELSE IF m_pCallbackFunc # 0
               THEN /\ cbRanges' = Append(cbRanges, SubSeq(m_vecIntermediateBuffer, 1, k))
                    /\ m_vecIntermediateBuffer' = m_vecIntermediateBuffer
                    /\ queuePc' = "callback"
             ELSE /\ cbRanges' = cbRanges
                  /\ m_vecIntermediateBuffer' = SubSeq(m_vecIntermediateBuffer, k + 1, n)
                  /\ queuePc' = "loop"

\* The callback returns to the decoupling thread, which keeps something other
\* than the bytes behind the range it passed, in their order.
CycleRetainsWrongly ==
    /\ QueueCallbackReturn
    /\ LET n == Len(m_vecIntermediateBuffer)
           k == Len(cbRanges[Len(cbRanges)])
       IN  ~ /\ m_vecIntermediateBuffer' = SubSeq(m_vecIntermediateBuffer, k + 1, n)
             /\ Len(m_vecIntermediateBuffer') = n % m_CaptureFormat.nBlockAlign
             /\ queuePc' = "loop"

\* C28: a cycle of the decoupling thread that has drained the queue and holds n
\* bytes in the staging buffer passes the first n - (n mod nBlockAlign) of them
\* to the callback when one is set (none when that is 0; with no callback they
\* are erased unpassed) and keeps the last n mod nBlockAlign, in order, at the
\* head of the staging buffer; between cycles, and after the thread's exit, the
\* staging buffer holds less than one frame.
C28_CycleDeliversAlignedPrefix ==
    /\ AlignedPrefixExact
    /\ DecouplingMode =>
          /\ ~ENABLED CycleSplitsWrongly
          /\ ~ENABLED CycleRetainsWrongly
          /\ queuePc \in {"loop", "done"} =>
                Len(m_vecIntermediateBuffer) < m_CaptureFormat.nBlockAlign

\* A cycle has passed one frame to the callback and kept the first byte of the
\* next.
C28_Witness ==
    /\ DecouplingMode
    /\ m_pCallbackFunc # 0
    /\ queuePc = "loop"
    /\ Len(cbRanges) = 1
    /\ Len(cbRanges[1]) = m_CaptureFormat.nBlockAlign
    /\ Len(m_vecIntermediateBuffer) = 1

\* The caller's StopThreads goes past its joins with no worker thread left.
ClearAfterJoins ==
    /\ JoinMain \/ JoinQueue
    /\ callerPc' = "idle"
    /\ mainPc' = "none"
    /\ queuePc' = "none"

\* Who changes the staging buffer, passes a range to the callback, or changes
\* the queue, and that the two workers are never both inside the callback.
OwnershipStep ==
    /\ m_vecIntermediateBuffer' # m_vecIntermediateBuffer =>
          \/ DirectMode /\ (MainCopyByte \/ MainDrained \/ MainCallbackReturn)
          \/ DecouplingMode /\ (QueueDequeue \/ QueueAlign \/ QueueCallbackReturn)
          \/ ClearAfterJoins
    /\ (cbRanges' # cbRanges /\ cbRanges' # <<>>) =>
          \/ DirectMode /\ MainDrained
          \/ DecouplingMode /\ QueueAlign
    /\ m_Queue' # m_Queue =>
          \/ DecouplingMode /\ (MainCopyByte \/ QueueDequeue)
          \/ ClearAfterJoins
    /\ ~(mainPc' = "callback" /\ queuePc' = "callback")
    /\ (m_pMainAudioThread' = "ProcessMainToCallback") => queuePc' = "none"
    /\ (m_pMainAudioThread' = "ProcessMainToQueue") => mainPc' # "callback"

\* C29: the staging buffer changes, and a range is passed to the callback, only
\* in a step of the producer when it runs ProcessMainToCallback (no decoupling
\* thread then exists) and only in a step of the decoupling thread when the
\* producer runs ProcessMainToQueue (the producer then only enqueues, and is
\* never inside the callback); the caller clears the staging buffer and
\* flushes the queue only in the step that ends its joins, with no worker left;
\* the two workers are never inside the callback together.
C29_SingleOwner == [][OwnershipStep]_vars

\* PauseCapture has joined the producer and the decoupling thread of a launch
\* in which the session produced, and left the staging buffer and the queue
\* empty.
C29_Witness ==
    /\ callerPc = "idle"
    /\ lastOp = "PauseCapture"
    /\ lastRet = "NONE"
    /\ m_CaptureState = "PAUSED"
    /\ m_bUseIntermediateBuffer /\ queueAvailable
    /\ mainPc = "none" /\ queuePc = "none"
    /\ m_vecIntermediateBuffer = <<>> /\ m_Queue = <<>>
    /\ nextByte > 1

\* ------------------------------------------------------------- termination
\* The life cycle with threads that are scheduled and callbacks that return.

\* A step of the producer other than a wake by the event: the loop head that
\* finds the flag cleared (reached from the wait when it times out), the drain
\* loop, and the return of the callback.
ProducerRuns ==
    \/ MainExit
    \/ MainGetBuffer
    \/ MainCopyByte
    \/ MainReleaseBuffer
    \/ MainDrained
    \/ MainCallbackReturn

\* A step of the decoupling thread, the return of the callback included.
DecouplerRuns ==
    \/ QueueLoop
    \/ QueueDequeue
    \/ QueueAlign
    \/ QueueCallbackReturn

\* join() returns once the thread has.
JoinReturns == JoinMain \/ JoinQueue

\* The calls of Next whose arguments are accepted, without SetCallbackInterval
\* (the interval is the length of a Sleep, which no step depends on), and every
\* step of the session, the workers and the joins.
NextLive ==
    \/ \E a \in FormatArgs :
          FormatParamOk(a[1], a[2], a[3], a[4]) /\ SetCaptureFormat(a[1], a[2], a[3], a[4])
    \/ \E a \in TargetArgs : a[1] # 0 /\ SetTargetProcess(a[1], a[2])
    \/ \E a \in CallbackArgs : SetCallback(a[1], a[2])
    \/ \E b \in BOOLEAN : SetIntermediateBufferEnabled(b)
    \/ StartCapture
    \/ StopCapture
    \/ PauseCapture
    \/ \E ms \in SkipArgs : ResumeCapture(ms)
    \/ JoinMain
    \/ JoinQueue
    \/ \E n \in PacketFrames : SessionProduce(n)
    \/ MainExit
    \/ MainWake
    \/ MainGetBuffer
    \/ MainCopyByte
    \/ MainReleaseBuffer
    \/ MainDrained
    \/ MainCallbackReturn
    \/ QueueLoop
    \/ QueueDequeue
    \/ QueueAlign
    \/ QueueCallbackReturn

\* The object driven by accepted calls only.
SpecAccepted == Init /\ [][NextLive]_vars

\* No fairness is put on MainWake: a wait is not required to see the event.
\* The session's packets are bounded by MaxFrames, so every drain loop ends.
SpecLive ==
    /\ Init
    /\ [][NextLive]_vars
    /\ WF_vars(ProducerRuns)
    /\ WF_vars(DecouplerRuns)
    /\ WF_vars(JoinReturns)

EnqueueOrDrop ==
    /\ MainCopyByte
    /\ IF m_dwMainThreadBytesToSkip = 0
       THEN m_Queue' = Append(m_Queue, pData[iByte + 1])
       ELSE m_Queue' = m_Queue

\* C31: while the decoupling thread is inside the callback, every step of the
\* producer's loop is enabled on its own conditions alone: the wake on the
\* signaled event, GetBuffer on an available packet, the enqueue of the next
\* byte (the queue grows by it once the budget is spent), ReleaseBuffer, and the
\* end of the drain back to the wait.  While a producer running
\* ProcessMainToCallback is inside the callback, it holds no packet and no
\* GetBuffer is enabled.
C31_CallbackDoesNotBlockProducer ==
    /\ (DecouplingMode /\ queuePc = "callback") =>
          /\ (mainPc = "wait" /\ eventSignaled /\ m_bRunMainAudioThread) =>
                ENABLED (MainWake /\ mainPc' = "drain")
          /\ (mainPc = "drain" /\ sessPackets # <<>>) => ENABLED MainGetBuffer
          /\ (mainPc = "copy" /\ iByte < Len(pData)) => ENABLED EnqueueOrDrop
          /\ (mainPc = "copy" /\ iByte = Len(pData)) => ENABLED MainReleaseBuffer
          /\ (mainPc = "drain" /\ sessPackets = <<>>) =>
                ENABLED (MainDrained /\ mainPc' = "wait")
    /\ (DirectMode /\ mainPc = "callback") =>
          /\ pData = <<>>
          /\ ~ENABLED MainGetBuffer
          /\ ~ENABLED (ProducerStep /\ sessPackets' # sessPackets)

\* The decoupling thread is inside the callback with the first frame while the
\* producer has woken, pulled and released the second, enqueued it whole and
\* gone back to its wait.
C31_Witness ==
    /\ DecouplingMode
    /\ queuePc = "callback"
    /\ Len(cbRanges) = 1
    /\ Len(m_Queue) = m_CaptureFormat.nBlockAlign
    /\ mainPc = "wait"
    /\ sessPackets = <<>>
    /\ m_bRunMainAudioThread

\* ------------------------------------------------- the activation adapter
\* StartCapture's activation as it runs: ActivateAudioInterfaceAsync returns,
\* the platform calls AsyncCallback's ActivateCompleted on a thread of its own,
\* and StartCapture goes on after AsyncCallback.Wait().  callerPc is
\* "activateCall" between ActivateAudioInterfaceAsync and Wait(), and
\* "activateWait" while Wait() blocks.

\* Everything but callerPc.
exceptCallerPc ==
    <<queueAvailable, m_hrLastError, m_CaptureState, cfgVars, sessionVars, threadVars,
      bufferVars, eventSignaled, nextByte, histVars, lastOp, lastRet, skipVars,
      adapterVars, starterVars>>

\* StartCapture up to the return of ActivateAudioInterfaceAsync with hr; the
\* constructor of AsyncCallback has reset its flag.
StartCaptureActivateAsync(hr) ==
    IF hr # "S_OK" THEN StartCaptureFails("DEVICE")
    ELSE /\ m_bActivateFinished' = FALSE
         /\ activateOp' = "pending"
         /\ m_hrLastError' = hr
         /\ callerPc' = "activateCall"
         /\ UNCHANGED <<queueAvailable, m_CaptureState, cfgVars, sessionVars, threadVars,
                        bufferVars, eventSignaled, nextByte, histVars, lastOp, lastRet,
                        skipVars, starterVars>>

StartCaptureActivate ==
    /\ callerPc = "idle"
    /\ IF StartCaptureGuard = "STATE" THEN Refused
       ELSE IF StartCaptureGuard # "NONE" THEN Rejected("StartCapture", StartCaptureGuard)
       ELSE \E hr \in HResults : StartCaptureActivateAsync(hr)

\* ActivateCompleted: the completion handler sets the flag and notifies.
ActivateCompleted ==
    /\ activateOp = "pending"
    /\ m_bActivateFinished' = TRUE
    /\ activateOp' = "done"
    /\ UNCHANGED <<objVars, lastOp, lastRet, skipVars, starterVars>>

\* Wait(): m_bActivateFinished.wait(false) finds the flag false and blocks.
AsyncCallbackWait ==
    /\ callerPc = "activateCall"
    /\ ~m_bActivateFinished
    /\ callerPc' = "activateWait"
    /\ UNCHANGED exceptCallerPc

\* StartCapture that goes on to GetActivateResult without Wait().
StartCaptureActivatedNoWait ==
    /\ callerPc \in {"activateCall", "activateWait"}
    /\ \E hrs \in StageResults :
          /\ hrs["DEVICE"] = "S_OK"
          /\ StartCaptureStages(FirstFailure(hrs))

\* Wait() returns, at once or after blocking, on the flag being set;
\* StartCapture then reads the activation result and runs its other stages.
StartCaptureActivated ==
    /\ callerPc \in {"activateCall", "activateWait"}
    /\ m_bActivateFinished
    /\ \E hrs \in StageResults :
          /\ hrs["DEVICE"] = "S_OK"
          /\ StartCaptureStages(FirstFailure(hrs))

NextActivate ==
    \/ \E a \in FormatArgs : SetCaptureFormat(a[1], a[2], a[3], a[4])
    \/ \E a \in TargetArgs : SetTargetProcess(a[1], a[2])
    \/ \E a \in CallbackArgs : SetCallback(a[1], a[2])
    \/ \E i \in IntervalArgs : SetCallbackInterval(i)
    \/ \E b \in BOOLEAN : SetIntermediateBufferEnabled(b)
    \/ StartCaptureActivate
    \/ ActivateCompleted
    \/ AsyncCallbackWait
    \/ StartCaptureActivated
    \/ StopCapture
    \/ PauseCapture
    \/ \E ms \in SkipArgs : ResumeCapture(ms)
    \/ JoinMain
    \/ JoinQueue
    \/ \E n \in PacketFrames : SessionProduce(n)
    \/ MainExit
    \/ MainWake
    \/ MainGetBuffer
    \/ MainCopyByte
    \/ MainReleaseBuffer
    \/ MainDrained
    \/ MainCallbackReturn
    \/ QueueLoop
    \/ QueueDequeue
    \/ QueueAlign
    \/ QueueCallbackReturn

SpecActivate == Init /\ [][NextActivate]_vars

\* StartCapture is between ActivateAudioInterfaceAsync and GetActivateResult.
Activating == callerPc \in {"activateCall", "activateWait"}

\* A step other than the completion handler's.
StepWithoutCompletion ==
    /\ NextActivate
    /\ activateOp' = activateOp
    /\ vars' # vars

\* C32: StartCapture reads the activation result, and returns anything but
\* DEVICE, only with the completion handler run and the flag set; a completion
\* is never lost (once the handler has run the flag stays set and the step out
\* of Wait() is enabled, whether Wait() was entered before or after); with the
\* completion before Wait() is called, Wait() does not block; and while the
\* handler has not run StartCapture stays inside its call in READY with no
\* session and no thread, a blocked Wait() leaving no step but the handler's.
C32_ActivationSynchronous ==
    /\ Activating =>
          /\ m_CaptureState = "READY"
          /\ activateOp \in {"pending", "done"}
          /\ ~m_pAudioClient /\ ~m_bThreadsStarted
          /\ (activateOp = "done") = m_bActivateFinished
          /\ m_bActivateFinished => ENABLED StartCaptureActivated
          /\ ~m_bActivateFinished => ~ENABLED StartCaptureActivated
          /\ (callerPc = "activateCall" /\ m_bActivateFinished) =>
                ~ENABLED AsyncCallbackWait
          /\ (callerPc = "activateWait" /\ activateOp = "pending") =>
                /\ ENABLED ActivateCompleted
                /\ ~ENABLED StepWithoutCompletion
    /\ (callerPc = "idle" /\ lastOp = "StartCapture"
          /\ lastRet \in {"ACTIVATION", "INITIALIZE", "SERVICE", "EVENT", "START", "NONE"}) =>
          m_bActivateFinished /\ activateOp = "done"

\* The completion handler has run before StartCapture called Wait().
C32_Witness ==
    /\ callerPc = "activateCall"
    /\ m_bActivateFinished
    /\ activateOp = "done"
    /\ m_CaptureState = "READY"

\* What StartThreads and StopThreads write: the threads and their flags, the
\* budget, the queue and the staging buffer.
workerVars == <<threadVars, m_Queue, m_vecIntermediateBuffer>>

\* A ResumeCapture whose Start() succeeds changes something of the workers.
ResumeTouchesWorkers(ms) ==
    /\ ResumeCaptureStart(ms, "S_OK")
    /\ workerVars' # workerVars

\* A StopCapture, or a PauseCapture whose Stop() succeeds, changes something of
\* the workers or does not return at once.
StopTouchesWorkers ==
    /\ StopCapture \/ (PauseCaptureGuard = "NONE" /\ PauseCaptureStop("S_OK"))
    /\ workerVars' # workerVars \/ callerPc' # "idle"

\* C33: each of the two thread pointers is non-null exactly while its thread
\* exists, so one producer and one decoupling thread at most; no thread exists
\* and both pointers are null whenever the threads are not marked started, which
\* is the only state in which StartThreads launches, so no pointer to a running
\* thread is overwritten; while they are marked started a call that reaches
\* StartThreads (ResumeCapture) changes nothing of the workers, and while they
\* are not a call that reaches StopThreads (StopCapture, PauseCapture) changes
\* nothing of them and joins nothing.
C33_OneThreadEach ==
    /\ (m_pMainAudioThread = "nullptr") = (mainPc = "none")
    /\ (m_pQueueAudioThread = "nullptr") = (queuePc = "none")
    /\ ~m_bThreadsStarted =>
          /\ mainPc = "none" /\ queuePc = "none"
          /\ callerPc = "idle"
    /\ (m_bThreadsStarted /\ callerPc = "idle") => mainPc # "none"
    /\ (callerPc = "idle" /\ m_CaptureState = "PAUSED" /\ m_bThreadsStarted) =>
          \A ms \in SkipArgs : ~ENABLED ResumeTouchesWorkers(ms)
    /\ (callerPc = "idle" /\ m_CaptureState # "READY" /\ ~m_bThreadsStarted) =>
          ~ENABLED StopTouchesWorkers

\* PauseCapture has returned STOP and left the workers running in PAUSED, where
\* a ResumeCapture that succeeds reaches StartThreads with the threads started.
C33_Witness ==
    /\ callerPc = "idle"
    /\ m_CaptureState = "PAUSED"
    /\ m_bThreadsStarted
    /\ mainPc \notin {"none", "done"}
    /\ \A ms \in SkipArgs : ENABLED ResumeCaptureStart(ms, "S_OK")

\* The budget left of b after n more bytes.
BudgetAfter(b, n) == b - Min(b, n)

\* The budget the producer had when it pulled the buffer it holds.
BudgetAtPull ==
    BudgetAfter(skipAtLaunch, Len(consumed) - iByte)

\* The bytes a producer step appended to its destination.
Forwarded ==
    IF m_pMainAudioThread = "ProcessMainToQueue"
    THEN SubSeq(m_Queue', Len(m_Queue) + 1, Len(m_Queue'))
    ELSE SubSeq(m_vecIntermediateBuffer', Len(m_vecIntermediateBuffer) + 1,
                Len(m_vecIntermediateBuffer'))

\* A pass of the byte loop over k bytes with budget b drops the first min(b, k)
\* of them, appends the others in order and leaves b - min(b, k).
ByteLoopStep ==
    LET k == iByte' - iByte
        b == m_dwMainThreadBytesToSkip
    IN  /\ k >= 1
        /\ DirectMode => k = Len(pData)
        /\ m_dwMainThreadBytesToSkip' = BudgetAfter(b, k)
        /\ Forwarded = SubSeq(pData, iByte + Min(b, k) + 1, iByte + k)
        /\ Len(IF DirectMode THEN m_Queue' ELSE m_vecIntermediateBuffer')
              <= Len(IF DirectMode THEN m_Queue ELSE m_vecIntermediateBuffer)

\* At ReleaseBuffer the buffer of n bytes pulled with budget b has left the
\* budget at b - min(b, n); a direct-mode producer has the other n - min(b, n)
\* bytes, in order, at the end of the staging buffer.
BufferDone ==
    LET n == Len(pData)
        b == BudgetAtPull
    IN  /\ iByte = n
        /\ m_dwMainThreadBytesToSkip = BudgetAfter(b, n)
        /\ DirectMode =>
              /\ Len(m_vecIntermediateBuffer) >= n - Min(b, n)
              /\ SubSeq(m_vecIntermediateBuffer,
                        Len(m_vecIntermediateBuffer) - (n - Min(b, n)) + 1,
                        Len(m_vecIntermediateBuffer))
                 = SubSeq(pData, Min(b, n) + 1, n)

SkipStep ==
    /\ m_dwMainThreadBytesToSkip' >= 0
    /\ m_dwMainThreadBytesToSkip' # m_dwMainThreadBytesToSkip =>
          \/ /\ MainCopyByte
             /\ m_dwMainThreadBytesToSkip' < m_dwMainThreadBytesToSkip
          \/ /\ ~m_bThreadsStarted /\ m_bThreadsStarted'
             /\ mainPc = "none" /\ mainPc' = "wait"
             /\ StartCapture \/ \E ms \in SkipArgs : ResumeCapture(ms)
    /\ (mainPc = "copy" /\ iByte' # iByte /\ mainPc' = "copy") => ByteLoopStep
    /\ (mainPc = "copy" /\ mainPc' = "drain") => BufferDone
    /\ (mainPc' \notin {"none", "done"}) =>
          m_dwMainThreadBytesToSkip' = BudgetAfter(skipAtLaunch', Len(consumed'))

\* C34: the byte loop, over the n bytes of a buffer pulled with budget b, drops
\* the first min(b, n), appends the other n - min(b, n) in order to the
\* producer's destination (the staging buffer in direct mode, the queue in
\* decoupling mode) and leaves the budget at b - min(b, n); the budget is never
\* negative, changes only by a decrease in the producer's byte loop or in a
\* StartCapture or ResumeCapture that launches the threads with none running.
C34_SkipBookkeeping == [][SkipStep]_vars

\* The producer, launched with a budget of two frames, is at ReleaseBuffer of
\* a buffer of one frame: the buffer was dropped whole and one frame of budget
\* is left.
C34_Witness ==
    /\ mainPc = "copy"
    /\ iByte = Len(pData)
    /\ Len(pData) = m_CaptureFormat.nBlockAlign
    /\ skipAtLaunch = 2 * m_CaptureFormat.nBlockAlign
    /\ Len(consumed) = Len(pData)
    /\ m_dwMainThreadBytesToSkip = m_CaptureFormat.nBlockAlign

\* The producer holds a session buffer: GetBuffer has returned it and
\* ReleaseBuffer has not been called for it.
BufferOutstanding == pData # <<>>

\* The producer, holding a buffer, takes a step that is not of its byte loop
\* and is not the release of the whole buffer.
LeavesBufferUnreleased ==
    /\ ProducerStep
    /\ ~MainCopyByte
    /\ ~ /\ MainReleaseBuffer
         /\ iByte = Len(pData)
         /\ pData' = <<>>
         /\ mainPc' = "drain"

\* C35: the producer holds a session buffer only between a GetBuffer and its
\* ReleaseBuffer, inside the drain loop; while it holds one, of whole frames,
\* its only steps are the byte loop and then the release of all of it, so no
\* GetBuffer, no callback, no wait and no exit comes before the release; at its
\* wait, in the callback, between two buffers, after its exit and when no
\* producer exists, none is outstanding.
C35_BufferReleased ==
    /\ BufferOutstanding = (mainPc = "copy")
    /\ mainPc = "copy" =>
          /\ Len(pData) % m_CaptureFormat.nBlockAlign = 0
          /\ iByte <= Len(pData)
          /\ ~ENABLED MainGetBuffer
          /\ ~ENABLED LeavesBufferUnreleased
          /\ iByte = Len(pData) => ENABLED MainReleaseBuffer
    /\ mainPc # "copy" => iByte = 0

\* The producer holds a buffer, an earlier one of the launch read and released,
\* while the caller waits to join it.
C35_Witness ==
    /\ mainPc = "copy"
    /\ Len(consumed) - iByte > 0
    /\ BufferOutstanding
    /\ callerPc = "joinMain"
    /\ ~m_bRunMainAudioThread

\* The audio client, the capture client and the event are all held.
SessionHeld == m_pAudioClient /\ m_pAudioCaptureClient /\ m_hSampleReadyEvent

\* A StopCapture releases something of the session in a step that leaves a
\* worker behind or does not end the call.
ReleasesUnderWorkers ==
    /\ StopCapture \/ JoinMain \/ JoinQueue
    /\ ~SessionHeld'
    /\ mainPc' # "none" \/ queuePc' # "none" \/ callerPc' # "idle"

\* C36: while a worker thread exists, up to the join that ends it, the audio
\* client, the capture client and the event are held; a StopCapture releases
\* them only in the step in which its StopThreads has joined the last worker
\* (or finds none), from CAPTURING and from PAUSED, with the workers a failed
\* PauseCapture left running and with none after a failed ResumeCapture; in
\* READY with no call in progress, where StopCapture and the destructor's
\* StopCapture do nothing, no worker exists.
C36_SessionOutlivesWorkers ==
    /\ (mainPc # "none" \/ queuePc # "none") => SessionHeld
    /\ m_bThreadsStarted => SessionHeld
    /\ m_CaptureState # "READY" => SessionHeld
    /\ (m_CaptureState = "READY" /\ callerPc = "idle") =>
          mainPc = "none" /\ queuePc = "none"
    /\ (callerPc # "idle" \/ m_CaptureState # "READY") => ~ENABLED ReleasesUnderWorkers

\* StopCapture, called in PAUSED where a failed PauseCapture had left the
\* workers running, waits to join the producer, which is in its drain loop.
C36_Witness ==
    /\ lastOp = "StopCapture"
    /\ callerPc = "joinMain"
    /\ m_CaptureState = "PAUSED"
    /\ mainPc \in {"drain", "copy"}
    /\ SessionHeld


\* ------------------------------------ the configuration across the life cycle

\* The setters, whose names lastOp takes.
SetterNames ==
    {"SetCaptureFormat", "SetTargetProcess", "SetCallback", "SetCallbackInterval",
     "SetIntermediateBufferEnabled"}

\* StopCapture has returned NONE and nothing was called since.
JustStopped ==
    /\ lastOp = "StopCapture"
    /\ lastRet = "NONE"
    /\ callerPc = "idle"

\* A step that changes the configuration is the step of a setter, called in
\* READY with no call in progress; and a state in which StopCapture has
\* returned is READY, with CopyCaptureFormat returning true and the stored
\* format, and passes the checks of StartCapture.
ConfigStep ==
    /\ cfgVars' # cfgVars =>
          /\ m_CaptureState = "READY"
          /\ m_CaptureState' = "READY"
          /\ callerPc = "idle"
          /\ callerPc' = "idle"
          /\ lastOp' \in SetterNames
    /\ JustStopped' =>
          /\ m_CaptureState' = "READY"
          /\ CopyCaptureFormat' = [ret |-> TRUE, Format |-> <<m_CaptureFormat'>>]
          /\ StartCaptureGuard' = "NONE"

\* C37: no step of StopCapture (its joins included), PauseCapture,
\* ResumeCapture or a failing StartCapture changes the format, the
\* format-initialized flag, the target process, the callback, the interval or
\* the intermediate-mode flag: only a setter called in READY does; so from a
\* successful StartCapture to the return of the StopCapture that ends the
\* session the configuration is the same, and after that return
\* CopyCaptureFormat returns true with the stored format and the checks of
\* StartCapture pass.
C37_LifeCycleKeepsConfig == [][ConfigStep]_vars

\* StopCapture has returned after the session had produced data, and
\* CopyCaptureFormat returns the format.
C37_Witness ==
    /\ JustStopped
    /\ m_CaptureState = "READY"
    /\ nextByte > 1
    /\ CopyCaptureFormat.ret


\* ------------------------------------------- two threads calling StartCapture
\* StartCapture called by two threads on one object.  Its first statement reads
\* m_CaptureState, an atomic, and its last but one stores CAPTURING; nothing
\* else orders the two calls.  A call is taken in two steps: its checks, and
\* everything after them.  The audio client, the capture client and the event
\* stay the flags they are in the rest of the model, so the sessions of the two
\* calls are not told apart; what the second call overwrites of the first is
\* not modelled.

\* The thread of Starters that is not t.
OtherStarter(t) == CHOOSE u \in Starters : u # t

\* StartCapture of thread t up to the end of its checks of the state, the
\* format and the process id.
StarterCheck(t) ==
    /\ starterPc[t] = "idle"
    /\ IF StartCaptureGuard = "NONE"
       THEN /\ starterPc' = [starterPc EXCEPT ![t] = "passed"]
            /\ UNCHANGED starterRet
       ELSE /\ starterPc' = [starterPc EXCEPT ![t] = "returned"]
            /\ starterRet' = [starterRet EXCEPT ![t] = StartCaptureGuard]
    /\ UNCHANGED <<objVars, lastOp, lastRet, skipVars, adapterVars>>

\* The return of thread t's call with ret.
StarterReturns(t, ret) ==
    /\ starterPc' = [starterPc EXCEPT ![t] = "returned"]
    /\ starterRet' = [starterRet EXCEPT ![t] = ret]

\* StartCapture of thread t after its checks, every stage succeeding: the
\* session is started, StartThreads(0.0) (nothing when the other call has
\* started the threads), the state, the return.
StarterSucceeds(t) ==
    /\ m_hrLastError' = "S_OK"
    /\ m_pAudioClient' = TRUE
    /\ m_pAudioCaptureClient' = TRUE
    /\ m_hSampleReadyEvent' = TRUE
    /\ eventSignaled' = FALSE
    /\ sessStarted' = TRUE
    /\ sessPackets' = <<>>
    /\ StartThreads(0)
    /\ m_CaptureState' = "CAPTURING"
    /\ Returned("StartCapture", "NONE")
    /\ StarterReturns(t, "NONE")
    /\ UNCHANGED <<queueAvailable, cfgVars, bufferVars, nextByte, stale, skipVars,
                   adapterVars>>

\* StartCapture of thread t after its checks, the stage named by outcome
\* failing: Reset(), whose Stop() is called when the other call has stored
\* CAPTURING and whose StopThreads joins the threads the other call started.
StarterFails(t, outcome) ==
    /\ m_hrLastError' = "E_FAIL"
    /\ lastOp' = "StartCapture"
    /\ lastRet' = outcome
    /\ StarterReturns(t, outcome)
    /\ IF m_bThreadsStarted
       THEN /\ StopThreadsBegin
            /\ m_pAudioClient' = (m_pAudioClient \/ Acquired(outcome).client)
            /\ m_pAudioCaptureClient' = (m_pAudioCaptureClient \/ Acquired(outcome).capture)
            /\ m_hSampleReadyEvent' = (m_hSampleReadyEvent \/ Acquired(outcome).event)
            /\ \E stopped \in BOOLEAN :
                  sessStarted' = IF m_CaptureState = "CAPTURING" /\ stopped
                                 THEN FALSE ELSE sessStarted
            /\ stale' = {}
            /\ UNCHANGED <<sessPackets, m_CaptureState>>
       ELSE /\ ResetRelease(Held)
            /\ eventSignaled' = FALSE
            /\ callerPc' = "idle"
            /\ UNCHANGED <<m_bRunMainAudioThread, m_bRunQueueAudioThread>>
    /\ UNCHANGED <<queueAvailable, cfgVars, m_bThreadsStarted,
                   m_pMainAudioThread, m_dwMainThreadBytesToSkip,
                   m_pQueueAudioThread, mainPc, queuePc, bufferVars, nextByte,
                   consumed, skipAtLaunch, cbRanges, skipVars, adapterVars>>

\* The rest of thread t's call, taken while no call is blocked in a join.
StarterStages(t) ==
    /\ starterPc[t] = "passed"
    /\ callerPc = "idle"
    /\ \E hrs \in StageResults :
          IF FirstFailure(hrs) = "NONE"
          THEN StarterSucceeds(t)
          ELSE StarterFails(t, FirstFailure(hrs))

\* No thread has called StartCapture yet.
NoStarterYet == \A t \in Starters : starterPc[t] = "idle"

\* The object is configured by one thread, with arguments the setters accept,
\* before the two threads call StartCapture; the session and the workers run
\* as in Next.
NextConcurrent ==
    \/ /\ NoStarterYet
       /\ \E a \in FormatArgs :
             FormatParamOk(a[1], a[2], a[3], a[4]) /\ SetCaptureFormat(a[1], a[2], a[3], a[4])
    \/ /\ NoStarterYet
       /\ \E a \in TargetArgs : a[1] # 0 /\ SetTargetProcess(a[1], a[2])
    \/ /\ NoStarterYet
       /\ \E a \in CallbackArgs : SetCallback(a[1], a[2])
    \/ /\ NoStarterYet
       /\ \E b \in BOOLEAN : SetIntermediateBufferEnabled(b)
    \/ \E t \in Starters : StarterCheck(t)
    \/ \E t \in Starters : StarterStages(t)
    \/ JoinMain
    \/ JoinQueue
    \/ \E n \in PacketFrames : SessionProduce(n)
    \/ MainExit
    \/ MainWake
    \/ MainGetBuffer
    \/ MainCopyByte
    \/ MainReleaseBuffer
    \/ MainDrained
    \/ MainCallbackReturn
    \/ QueueLoop
    \/ QueueDequeue
    \/ QueueAlign
    \/ QueueCallbackReturn

SpecConcurrent == Init /\ [][NextConcurrent]_vars

\* C38: of two threads that call StartCapture on one object in READY at the
\* same time, at most one is past the checks at any moment, and a call is past
\* its checks only while the state is READY (the other call, if it returned, was
\* refused or failed).
C38_OneStarterPassesGuard ==
    \A t \in Starters :
        starterPc[t] = "passed" =>
            /\ starterPc[OtherStarter(t)] # "passed"
            /\ m_CaptureState = "READY"

=============================================================================
